---- MODULE Spec2Model ----
(***************************************************************************)
(* Kolang front end: the tokenizer (lexer/src/lib.rs) and the recursive-   *)
(* descent parser (parser/src/lib.rs, parser/src/syntax.rs).               *)
(*                                                                         *)
(* A character is a one-character string; a text (String of the source)    *)
(* is a sequence of characters.  The byte source of a Lexer is the         *)
(* sequence of bytes not read yet.                                         *)
(***************************************************************************)
EXTENDS Integers, Sequences, FiniteSets, TLC

\* driver  : the program that runs, lexer/src/main.rs or parser/src/main.rs
\* source  : the bytes of the source file
\* lexer   : the Lexer (of the parser, when the parser runs)
\* tokens  : the tokens Lexer::next() has returned to the lexer's driver
\* lexemes : for each of them, the source text the call took as the token
\* result  : the outcome of Parser::parse()
\* texts   : the lines lexer/src/main.rs has printed, one for each token, or
\*           the texts Display has rendered for the nodes
\* nodes   : the AST nodes given to Display (parser/src/ast.rs)
\* table   : the SymbolTable of the current scope (semantic/src/
\*           symbol_table.rs), which holds the tables of the scopes around it
\* reply   : the last call on the table, its argument, what it returned, and
\*           the table it was called on; or the mode Display was called in
VARIABLES driver, source, lexer, tokens, lexemes, result, texts, nodes, table, reply

vars == <<driver, source, lexer, tokens, lexemes, result, texts, nodes, table, reply>>

(***************************************************************************)
(* Bounds of the model.                                                    *)
(***************************************************************************)
\* the longest source over the characters of numbers, strings, chars, others
MaxNumLen == 4
MaxStrLen == 6
MaxChrLen == 5
MaxMiscLen == 2
\* the longest body of a literal in a parsed program
MaxBodyLen == 4
\* the most parameter-list pieces in a parsed program
MaxParams == 4
\* the deepest nesting of statements in a parsed program
MaxDepth == 1
\* the most calls of Lexer::next() by the lexer's driver
MaxCalls == 8
\* the most binary operators in a parsed chain of operands
MaxOps == 2
\* the most prefix operators before the operand of a parsed expression
MaxPrefix == 2
\* the most pieces in a source made of pieces
MaxPieces == 3
\* the most tokens that follow the prefix of a well-formed function
MaxExtra == 2
\* the most operators of a chain of assignments and binary operators, and
\* the most `=` among them
MaxChainOps == 3
MaxAssigns == 2

\* the most scopes of a chain of symbol tables
MaxScopes == 2

\* the most if statements nested in a rendered statement
MaxIfDepth == 2

\* the most characters of a source that may hold zero bytes
MaxNulLen == 3
\* the most digits after the base prefix of a parsed integer literal
MaxRadixLen == 4

(***************************************************************************)
(* Characters.                                                             *)
(***************************************************************************)
\* '\0' : the value next_char() stores when the stream is exhausted
NUL == "NUL"
NL == "\n"
TAB == "\t"
BSL == "\\"
DQ == "\""
SQ == "'"

LowerSeq == <<"a","b","c","d","e","f","g","h","i","j","k","l","m",
              "n","o","p","q","r","s","t","u","v","w","x","y","z">>
UpperSeq == <<"A","B","C","D","E","F","G","H","I","J","K","L","M",
              "N","O","P","Q","R","S","T","U","V","W","X","Y","Z">>
DigitSeq == <<"0","1","2","3","4","5","6","7","8","9">>

Range(s) == {s[i] : i \in DOMAIN s}

\* char::is_ascii_alphabetic
is_ascii_alphabetic(c) == c \in Range(LowerSeq) \cup Range(UpperSeq)

\* char::is_ascii_alphanumeric
is_ascii_alphanumeric(c) == is_ascii_alphabetic(c) \/ c \in Range(DigitSeq)

\* char::is_whitespace on a byte read as a char (space, \t, \n, \r)
is_whitespace(c) == c \in {" ", TAB, NL, "\r"}

\* the value of c as a digit, 36 when it is none
DigitValue(c) ==
    IF \E i \in DOMAIN DigitSeq : DigitSeq[i] = c
    THEN (CHOOSE i \in DOMAIN DigitSeq : DigitSeq[i] = c) - 1
    ELSE IF \E i \in DOMAIN LowerSeq : LowerSeq[i] = c
    THEN (CHOOSE i \in DOMAIN LowerSeq : LowerSeq[i] = c) + 9
    ELSE IF \E i \in DOMAIN UpperSeq : UpperSeq[i] = c
    THEN (CHOOSE i \in DOMAIN UpperSeq : UpperSeq[i] = c) + 9
    ELSE 36

\* char::is_digit(base)
is_digit(c, base) == DigitValue(c) < base

(***************************************************************************)
(* Token model (lexer/src/token.rs).                                       *)
(***************************************************************************)
\* Token::new
Token(line, column, token_type, payload) ==
    [line |-> line, column |-> column, token_type |-> token_type, payload |-> payload]

\* the keyword table of Lexer::next
Keyword(tmp) ==
    CASE tmp = <<"f","o","r">> -> "KwFor"
      [] tmp = <<"t","o">> -> "KwTo"
      [] tmp = <<"w","h","i","l","e">> -> "KwWhile"
      [] tmp = <<"i","f">> -> "KwIf"
      [] tmp = <<"e","l","s","e">> -> "KwElse"
      [] tmp = <<"t","r","u","e">> -> "KwTrue"
      [] tmp = <<"f","a","l","s","e">> -> "KwFalse"
      [] tmp = <<"o","r">> -> "KwOr"
      [] tmp = <<"a","n","d">> -> "KwAnd"
      [] tmp = <<"n","o","t">> -> "KwNot"
      [] tmp = <<"l","e","t">> -> "KwLet"
      [] tmp = <<"f","n">> -> "KwFn"
      [] tmp = <<"r","e","t","u","r","n">> -> "KwReturn"
      [] tmp = <<"i","n","t">> -> "KwInt"
      [] tmp = <<"c","h","a","r">> -> "KwChar"
      [] tmp = <<"b","o","o","l">> -> "KwBool"
      [] tmp = <<"f","l","o","a","t">> -> "KwFloat"
      [] tmp = <<"s","t","r">> -> "KwStr"
      [] OTHER -> "Iden"

\* the single-character tokens of Lexer::next
SingleCharToken(c) ==
    CASE c = "(" -> "LPar"
      [] c = ")" -> "RPar"
      [] c = "[" -> "LBracket"
      [] c = "]" -> "RBracket"
      [] c = "{" -> "LBrace"
      [] c = "}" -> "RBrace"
      [] c = "+" -> "Plus"
      [] c = "-" -> "Minus"
      [] c = "*" -> "Asterisk"
      [] c = "%" -> "Percent"
      [] c = "|" -> "Pipe"
      [] c = "&" -> "Amp"
      [] c = "~" -> "Tilde"
      [] c = ";" -> "Semicolon"
      [] c = ":" -> "Colon"
      [] c = "," -> "Comma"
      [] c = NUL -> "EOF"
      [] OTHER -> "None"

\* the text of a keyword or punctuation token type, <<>> for another type
CanonicalText(tt) ==
    CASE tt = "LPar" -> <<"(">> [] tt = "RPar" -> <<")">>
      [] tt = "LBracket" -> <<"[">> [] tt = "RBracket" -> <<"]">>
      [] tt = "LBrace" -> <<"{">> [] tt = "RBrace" -> <<"}">>
      [] tt = "LT" -> <<"<">> [] tt = "GT" -> <<">">>
      [] tt = "LEq" -> <<"<", "=">> [] tt = "GEq" -> <<">", "=">>
      [] tt = "Eq" -> <<"=", "=">> [] tt = "NEq" -> <<"!", "=">>
      [] tt = "Assign" -> <<"=">> [] tt = "Plus" -> <<"+">>
      [] tt = "Minus" -> <<"-">> [] tt = "Asterisk" -> <<"*">>
      [] tt = "Slash" -> <<"/">> [] tt = "Percent" -> <<"%">>
      [] tt = "Pipe" -> <<"|">> [] tt = "Amp" -> <<"&">>
      [] tt = "Tilde" -> <<"~">> [] tt = "Semicolon" -> <<";">>
      [] tt = "Colon" -> <<":">> [] tt = "Comma" -> <<",">>
      [] tt = "Period" -> <<".">>
      [] tt = "KwFor" -> <<"f", "o", "r">> [] tt = "KwTo" -> <<"t", "o">>
      [] tt = "KwWhile" -> <<"w", "h", "i", "l", "e">>
      [] tt = "KwIf" -> <<"i", "f">> [] tt = "KwElse" -> <<"e", "l", "s", "e">>
      [] tt = "KwTrue" -> <<"t", "r", "u", "e">>
      [] tt = "KwFalse" -> <<"f", "a", "l", "s", "e">>
      [] tt = "KwOr" -> <<"o", "r">> [] tt = "KwAnd" -> <<"a", "n", "d">>
      [] tt = "KwNot" -> <<"n", "o", "t">> [] tt = "KwLet" -> <<"l", "e", "t">>
      [] tt = "KwFn" -> <<"f", "n">>
      [] tt = "KwReturn" -> <<"r", "e", "t", "u", "r", "n">>
      [] tt = "KwInt" -> <<"i", "n", "t">> [] tt = "KwChar" -> <<"c", "h", "a", "r">>
      [] tt = "KwBool" -> <<"b", "o", "o", "l">>
      [] tt = "KwFloat" -> <<"f", "l", "o", "a", "t">>
      [] tt = "KwStr" -> <<"s", "t", "r">>
      [] OTHER -> <<>>

\* a rendering that gives `<=` the text of `>=` and `>=` the text of `<=`
fmt_token_type_swapped(tt, payload) ==
    CASE tt \in {"Iden", "LiteralIntDec", "LiteralIntBin", "LiteralIntOct",
                 "LiteralIntHex", "LiteralChar", "LiteralFloat", "LiteralStr"} -> payload
      [] tt = "LEq" -> <<">", "=">>
      [] tt = "GEq" -> <<"<", "=">>
      [] OTHER -> CanonicalText(tt)

\* impl Display for TokenType
fmt_token_type(tt, payload) ==
    CASE tt \in {"Iden", "LiteralIntDec", "LiteralIntBin", "LiteralIntOct",
                 "LiteralIntHex", "LiteralChar", "LiteralFloat", "LiteralStr"} -> payload
      [] tt \in {"LC", "BC"} -> <<"c", "o", "m", "m", "e", "n", "t">>
      [] tt = "Invalid" -> <<"i", "n", "v", "a", "l", "i", "d">>
      [] tt = "EOF" -> <<"E", "O", "F">>
      [] OTHER -> CanonicalText(tt)

\* Display of an integer that is not negative (usize, and the i64 of a
\* literal)
RECURSIVE fmt_int(_)
fmt_int(n) ==
    IF n < 10 THEN <<DigitSeq[n + 1]>>
    ELSE fmt_int(n \div 10) \o <<DigitSeq[(n % 10) + 1]>>

\* impl Display for Token: "{}, Ln: {}, Col: {}"
fmt_token(t) ==
    fmt_token_type(t.token_type, t.payload)
        \o <<",", " ", "L", "n", ":", " ">> \o fmt_int(t.line)
        \o <<",", " ", "C", "o", "l", ":", " ">> \o fmt_int(t.column)

(***************************************************************************)
(* Lexer (lexer/src/lib.rs).  A Lexer is the record of its four fields.    *)
(***************************************************************************)
\* the element of a one-element set: The({e : x \in {v}}) is e with x bound
\* to the value v (a `let x = v;` of the source)
The(S) == CHOOSE e \in S : TRUE

\* Lexer::new
NewLexer(stream) == [line |-> 1, column |-> 0, stream |-> stream, current |-> " "]

\* a next_char for which a newline does not start a new line of columns
next_char_flat(L) ==
    IF L.stream # <<>>
    THEN [line |-> IF L.current = NL THEN L.line + 1 ELSE L.line,
          column |-> L.column + 1,
          stream |-> Tail(L.stream),
          current |-> Head(L.stream)]
    ELSE [L EXCEPT !.current = NUL]

\* a next_char that counts a column for each read of the exhausted stream
next_char_past_end(L) ==
    IF L.stream # <<>>
    THEN [line |-> IF L.current = NL THEN L.line + 1 ELSE L.line,
          column |-> IF L.current = NL THEN 1 ELSE L.column + 1,
          stream |-> Tail(L.stream),
          current |-> Head(L.stream)]
    ELSE [L EXCEPT !.current = NUL, !.column = @ + 1]

\* Lexer::next_char
next_char(L) ==
    IF L.stream # <<>>
    THEN [line |-> IF L.current = NL THEN L.line + 1 ELSE L.line,
          column |-> IF L.current = NL THEN 1 ELSE L.column + 1,
          stream |-> Tail(L.stream),
          current |-> Head(L.stream)]
    ELSE [L EXCEPT !.current = NUL]

\* Lexer::consume_whitespace
RECURSIVE consume_whitespace(_)
consume_whitespace(L) ==
    IF is_whitespace(L.current) THEN consume_whitespace(next_char(L)) ELSE L

\* a lexer together with the text a match_* function returns
Matched(L, s) == [lx |-> L, s |-> s]

\* Lexer::match_iden, from an accumulated id
RECURSIVE match_iden_loop(_, _)
match_iden_loop(L, id) ==
    IF is_ascii_alphanumeric(L.current) \/ L.current = "_"
    THEN match_iden_loop(next_char(L), Append(id, L.current))
    ELSE Matched(L, id)

\* Lexer::match_iden
match_iden(L) == match_iden_loop(L, <<>>)

\* Lexer::match_num, from an accumulated num
RECURSIVE match_num_loop(_, _, _)
match_num_loop(L, base, num) ==
    IF is_digit(L.current, base)
    THEN match_num_loop(next_char(L), base, Append(num, L.current))
    ELSE Matched(L, num)

\* Lexer::match_num
match_num(L, base) == match_num_loop(L, base, <<>>)

\* tmp.push_str(&self.match_*()): the text of a match appended to tmp
push_str(tmp, m) == Matched(m.lx, tmp \o m.s)

\* Lexer::match_scientific
match_scientific(L) ==
    The({ IF m.lx.current = "e" \/ m.lx.current = "E"
          THEN The({ IF l1.current = "+" \/ l1.current = "-"
                     THEN push_str(Append(Append(m.s, m.lx.current), l1.current),
                                   match_num(next_char(l1), 10))
                     ELSE push_str(Append(m.s, m.lx.current), match_num(l1, 10))
                   : l1 \in {next_char(m.lx)} })
          ELSE m
        : m \in {match_num(L, 10)} })

\* Lexer::match_char
match_char(L) ==
    The({ The({ The({ IF l3.lx.current = SQ
                      THEN Matched(next_char(l3.lx), Append(l3.s, l3.lx.current))
                      ELSE l3
                    : l3 \in {IF l2.s = <<SQ, BSL>> /\ l2.lx.current # NUL
                              THEN Matched(next_char(l2.lx), Append(l2.s, l2.lx.current))
                              ELSE l2} })
              : l2 \in {Matched(next_char(l1), <<L.current, l1.current>>)} })
        : l1 \in {next_char(L)} })

\* Lexer::match_str, the loop from an accumulated s and the escape flag
RECURSIVE match_str_loop(_, _, _)
match_str_loop(L, s, escape) ==
    IF (L.current # DQ /\ L.current # NUL) \/ escape
    THEN match_str_loop(next_char(L), Append(s, L.current), L.current = BSL)
    ELSE Matched(L, s)

\* Lexer::match_str
match_str(L) ==
    The({ IF m.lx.current = DQ
          THEN Matched(next_char(m.lx), Append(m.s, m.lx.current))
          ELSE m
        : m \in {match_str_loop(next_char(L), <<L.current>>, FALSE)} })

\* Lexer::match_line_comment
RECURSIVE match_line_comment_loop(_, _)
match_line_comment_loop(L, comment) ==
    IF L.current # NL /\ L.current # NUL
    THEN match_line_comment_loop(next_char(L), Append(comment, L.current))
    ELSE Matched(L, comment)

match_line_comment(L) == match_line_comment_loop(L, <<>>)

\* Lexer::match_block_comment
RECURSIVE match_block_comment_loop(_, _, _)
match_block_comment_loop(L, comment, asterisk) ==
    IF L.current # NUL /\ ~(asterisk /\ L.current = "/")
    THEN match_block_comment_loop(next_char(L), Append(comment, L.current), L.current = "*")
    ELSE Matched(L, comment)

match_block_comment(L) ==
    The({ IF m.lx.current # NUL
          THEN Matched(next_char(m.lx), Append(m.s, m.lx.current))
          ELSE m
        : m \in {match_block_comment_loop(L, <<>>, FALSE)} })

\* what the match on self.current of Lexer::next yields: the lexer, the
\* token type and payload, and the `consumed` flag
Scanned(L, token_type, payload, consumed) ==
    [lx |-> L, token_type |-> token_type, payload |-> payload, consumed |-> consumed]

\* an arm of Lexer::next whose payload is tmp followed by the text of a match
ScannedMatch(m, token_type, tmp) == Scanned(m.lx, token_type, tmp \o m.s, TRUE)

\* arms '<', '>', '!', '=' that leave `consumed` unset when the second
\* character is not '=', so that Lexer::next reads past the peeked character
ScanTwoChar_greedy(L) ==
    LET c == L.current IN
    The({ IF l1.current = "="
          THEN Scanned(l1, CASE c = "<" -> "LEq" [] c = ">" -> "GEq"
                             [] c = "!" -> "NEq" [] OTHER -> "Eq", <<>>, FALSE)
          ELSE CASE c = "<" -> Scanned(l1, "LT", <<>>, FALSE)
                 [] c = ">" -> Scanned(l1, "GT", <<>>, FALSE)
                 [] c = "!" -> Scanned(l1, "Invalid", <<"!">>, FALSE)
                 [] OTHER -> Scanned(l1, "Assign", <<>>, FALSE)
        : l1 \in {next_char(L)} })

\* Lexer::next, the arms '<', '>', '!', '=' (one-character peek)
ScanTwoChar(L) ==
    LET c == L.current IN
    The({ IF l1.current = "="
          THEN Scanned(l1, CASE c = "<" -> "LEq" [] c = ">" -> "GEq"
                             [] c = "!" -> "NEq" [] OTHER -> "Eq", <<>>, FALSE)
          ELSE CASE c = "<" -> Scanned(l1, "LT", <<>>, TRUE)
                 [] c = ">" -> Scanned(l1, "GT", <<>>, TRUE)
                 [] c = "!" -> Scanned(l1, "Invalid", <<"!">>, TRUE)
                 [] OTHER -> Scanned(l1, "Assign", <<>>, TRUE)
        : l1 \in {next_char(L)} })

\* Lexer::next, the arm '/'
ScanSlash(L) ==
    The({ CASE l1.current = "/" ->
                  ScannedMatch(match_line_comment(next_char(l1)), "LC", <<"/", "/">>)
            [] l1.current = "*" ->
                  ScannedMatch(match_block_comment(next_char(l1)), "BC", <<"/", "*">>)
            [] OTHER -> Scanned(l1, "Slash", <<>>, TRUE)
        : l1 \in {next_char(L)} })

\* Lexer::next, the arms '\'' and '"': the text of the match is a literal
\* when its last character is the quote
ScanQuoted(m, quote, token_type) ==
    IF m.s # <<>> /\ m.s[Len(m.s)] = quote
    THEN Scanned(m.lx, token_type, m.s, TRUE)
    ELSE Scanned(m.lx, "Invalid", m.s, TRUE)

\* Lexer::next, the arm '\''
ScanChar(L) == ScanQuoted(match_char(L), SQ, "LiteralChar")

\* Lexer::next, the arm '"'
ScanStr(L) == ScanQuoted(match_str(L), DQ, "LiteralStr")

\* Lexer::next, the arm '.'
ScanPeriod(L) ==
    The({ IF is_digit(l1.current, 10)
          THEN ScannedMatch(match_scientific(l1), "LiteralFloat", <<".">>)
          ELSE Scanned(l1, "Period", <<>>, TRUE)
        : l1 \in {next_char(L)} })

\* Lexer::next, identifier or keyword
ScanIden(L) ==
    The({ Scanned(m.lx, Keyword(m.s), IF Keyword(m.s) = "Iden" THEN m.s ELSE <<>>, TRUE)
        : m \in {match_iden(L)} })

\* Lexer::next, a prefixed integer: the prefix is pushed, one character is
\* read and the digits of the base follow
ScanPrefixed(L, tmp, base, token_type) ==
    ScannedMatch(match_num(next_char(L), base), token_type, Append(tmp, L.current))

\* Lexer::next, a float: tmp followed by the text of match_scientific
ScanFloat(L, tmp) == ScannedMatch(match_scientific(L), "LiteralFloat", tmp)

\* Lexer::next, numeric (int or float), after the decimal digits n
ScanDigits(n) ==
    LET tmp == n.s
        l1 == n.lx
        c == n.lx.current
    IN  IF tmp = <<"0">>
        THEN CASE c \in {"b", "B"} -> ScanPrefixed(l1, tmp, 2, "LiteralIntBin")
               [] c \in {"o", "O"} -> ScanPrefixed(l1, tmp, 8, "LiteralIntOct")
               [] c \in {"x", "X"} -> ScanPrefixed(l1, tmp, 16, "LiteralIntHex")
                  \* the '.' is pushed but not consumed
               [] c = "." -> ScanFloat(l1, Append(tmp, c))
               [] c = "e" -> ScanFloat(l1, tmp)
               [] OTHER -> Scanned(l1, "LiteralIntDec", tmp, TRUE)
        ELSE CASE c = "." -> ScanFloat(next_char(l1), Append(tmp, c))
               [] c = "e" -> ScanFloat(l1, tmp)
               [] OTHER -> Scanned(l1, "LiteralIntDec", tmp, TRUE)

\* Lexer::next, numeric (int or float)
ScanNumber(L) == ScanDigits(match_num(L, 10))

\* Lexer::next, the match on self.current
Scan(L) ==
    LET c == L.current IN
    CASE SingleCharToken(c) # "None" -> Scanned(L, SingleCharToken(c), <<>>, FALSE)
      [] c \in {"<", ">", "!", "="} -> ScanTwoChar(L)
      [] c = "/" -> ScanSlash(L)
      [] c = SQ -> ScanChar(L)
      [] c = DQ -> ScanStr(L)
      [] c = "." -> ScanPeriod(L)
      [] is_ascii_alphabetic(c) \/ c = "_" -> ScanIden(L)
      [] is_digit(c, 10) -> ScanNumber(L)
      [] OTHER -> Scanned(L, "Invalid", <<>>, TRUE)

\* Lexer::next: the lexer after the call and the token it returns
LexerNext(L) ==
    The({ The({ [lx |-> IF ~r.consumed /\ r.token_type # "Invalid"
                        THEN next_char(r.lx) ELSE r.lx,
                 tok |-> Token(l0.line, l0.column, r.token_type, r.payload)]
              : r \in {Scan(l0)} })
        : l0 \in {consume_whitespace(L)} })


(***************************************************************************)
(* Literal resolution (parser/src/syntax.rs, Parser::primary_expr).        *)
(***************************************************************************)
\* str::trim_start_matches(ch)
RECURSIVE trim_start_matches(_, _)
trim_start_matches(s, ch) ==
    IF s # <<>> /\ Head(s) = ch THEN trim_start_matches(Tail(s), ch) ELSE s

\* str::trim_end_matches(ch)
RECURSIVE trim_end_matches(_, _)
trim_end_matches(s, ch) ==
    IF s # <<>> /\ s[Len(s)] = ch
    THEN trim_end_matches(SubSeq(s, 1, Len(s) - 1), ch)
    ELSE s

\* str::trim_matches(ch): every leading and every trailing ch is removed
trim_matches(s, ch) == trim_end_matches(trim_start_matches(s, ch), ch)

\* str::replace(from, to) for a two-character pattern `\` e and a
\* one-character replacement: non-overlapping matches, left to right
RECURSIVE replace(_, _, _)
replace(s, e, to) ==
    IF Len(s) < 2 THEN s
    ELSE IF s[1] = BSL /\ s[2] = e
         THEN <<to>> \o replace(SubSeq(s, 3, Len(s)), e, to)
         ELSE <<s[1]>> \o replace(Tail(s), e, to)

\* the chain of replace calls on the text between the quotes
Unescape(raw) ==
    LET r1 == replace(raw, "n", NL)
        r2 == replace(r1, DQ, DQ)
        r3 == replace(r2, "t", TAB)
        r4 == replace(r3, BSL, BSL)
        r5 == replace(r4, "r", "\r")
        r6 == replace(r5, SQ, SQ)
    IN  replace(r6, "0", NUL)

\* the value of a LiteralStr token
ResolveStr(s) == Unescape(trim_matches(s, DQ))

\* Option::None and Option::Some (also Err and Ok of a literal's parse)
None == [kind |-> "None"]

Some(v) == [kind |-> "Some", value |-> v]

\* the character of an escape sequence `\` e of the fixed set
EscapeChar(e) ==
    CASE e = "n" -> Some(NL)
      [] e = SQ -> Some(SQ)
      [] e = DQ -> Some(DQ)
      [] e = "t" -> Some(TAB)
      [] e = BSL -> Some(BSL)
      [] e = "r" -> Some("\r")
      [] e = "0" -> Some(NUL)
      [] OTHER -> None

\* the match on the text between the quotes of a character literal
CharOf(trimmed) ==
    IF Len(trimmed) = 1 THEN Some(trimmed[1])
    ELSE IF Len(trimmed) = 2 /\ trimmed[1] = BSL THEN EscapeChar(trimmed[2])
    ELSE None

\* the parsed_char of a LiteralChar token
ResolveChar(c) == CharOf(trim_matches(c, SQ))

\* i64::from_str_radix on digits of the radix: None for the empty text
\* (literals of the model are too short to overflow an i64)
RECURSIVE RadixValue(_, _, _)
RadixValue(n, radix, acc) ==
    IF n = <<>> THEN acc
    ELSE RadixValue(Tail(n), radix, acc * radix + DigitValue(Head(n)))

\* a from_str_radix that reads the digits in base ten whatever the radix
from_str_radix_decimal(n, radix) ==
    IF n = <<>> \/ \E i \in DOMAIN n : ~is_digit(n[i], radix)
    THEN None
    ELSE Some(RadixValue(n, 10, 0))

from_str_radix(n, radix) ==
    IF n = <<>> \/ \E i \in DOMAIN n : ~is_digit(n[i], radix)
    THEN None
    ELSE Some(RadixValue(n, radix, 0))

\* str::parse::<f64> on a float payload of the lexer:
\*   Number ::= ( Digit+ | Digit+ '.' Digit* | Digit* '.' Digit+ ) Exp?
\*   Exp    ::= ('e' | 'E') Sign? Digit+
\* The value is the pair of the decimal mantissa and exponent, without the
\* trailing zeros of the mantissa.
IndexOf(s, cs) ==
    IF \E i \in DOMAIN s : s[i] \in cs
    THEN CHOOSE i \in DOMAIN s : s[i] \in cs /\ \A j \in 1..(i - 1) : s[j] \notin cs
    ELSE 0

AllDigits(s) == \A i \in DOMAIN s : is_digit(s[i], 10)

RECURSIVE Normalize(_, _)
Normalize(m, e) ==
    IF m = 0 THEN [kind |-> "f64", mantissa |-> 0, exp |-> 0]
    ELSE IF m % 10 = 0 THEN Normalize(m \div 10, e + 1)
    ELSE [kind |-> "f64", mantissa |-> m, exp |-> e]

\* the value of the digits ip '.' fp with the exponent of sign neg and
\* digits exd (hasExp: the text has an exponent mark)
FloatValue(ip, fp, hasExp, neg, exd) ==
    IF /\ AllDigits(ip) /\ AllDigits(fp) /\ ip \o fp # <<>>
       /\ (~hasExp \/ (exd # <<>> /\ AllDigits(exd)))
    THEN Some(Normalize(RadixValue(ip \o fp, 10, 0),
                        (IF ~hasExp THEN 0
                         ELSE IF neg THEN 0 - RadixValue(exd, 10, 0)
                         ELSE RadixValue(exd, 10, 0)) - Len(fp)))
    ELSE None

\* the text num of the mantissa split at its point, at index pi if any
FloatParts(num, pi, hasExp, ex) ==
    FloatValue(IF pi = 0 THEN num ELSE SubSeq(num, 1, pi - 1),
               IF pi = 0 THEN <<>> ELSE SubSeq(num, pi + 1, Len(num)),
               hasExp,
               ex # <<>> /\ Head(ex) = "-",
               IF ex # <<>> /\ Head(ex) \in {"+", "-"} THEN Tail(ex) ELSE ex)

\* the text f split at its exponent mark, at index ei if any
FloatSplit(f, ei) ==
    The({ FloatParts(num, IndexOf(num, {"."}), ei # 0,
                     IF ei = 0 THEN <<>> ELSE SubSeq(f, ei + 1, Len(f)))
        : num \in {IF ei = 0 THEN f ELSE SubSeq(f, 1, ei - 1)} })

parse_f64(f) == FloatSplit(f, IndexOf(f, {"e", "E"}))


(***************************************************************************)
(* Parser (parser/src/lib.rs, parser/src/syntax.rs).  A Parser is the      *)
(* record of its lexer and its current token; a panic of syntax_error      *)
(* is the status "panic" with the position and message of the diagnostic,  *)
(* after which no code of the parser runs.  `pulled` counts the calls of   *)
(* Lexer::next.                                                            *)
(***************************************************************************)
\* Parser::new
NewParser(L) ==
    [lexer |-> L, current |-> Token(0, 0, "LC", <<>>), status |-> "ok",
     err |-> [line |-> 0, column |-> 0, msg |-> <<>>], pulled |-> 0]

\* Parser::syntax_error
syntax_error(P, msg) ==
    IF P.status # "ok" THEN P
    ELSE [P EXCEPT !.status = "panic",
                   !.err = [line |-> P.current.line, column |-> P.current.column,
                            msg |-> msg]]

\* a Parser::next that keeps a comment as the current token
ParserNext_keep(P) ==
    IF P.status # "ok" THEN P
    ELSE The({ IF p1.current.token_type = "Invalid"
               THEN syntax_error(p1, <<"Invalid token">>)
               ELSE p1
             : p1 \in {The({ [P EXCEPT !.lexer = r.lx, !.current = r.tok,
                                       !.pulled = @ + 1]
                           : r \in {LexerNext(P.lexer)} })} })

\* Parser::next
RECURSIVE ParserNext(_)
ParserNext(P) ==
    IF P.status # "ok" THEN P
    ELSE The({ CASE p1.current.token_type \in {"LC", "BC"} -> ParserNext(p1)
                 [] p1.current.token_type = "Invalid" ->
                       syntax_error(p1, <<"Invalid token">>)
                 [] OTHER -> p1
             : p1 \in {The({ [P EXCEPT !.lexer = r.lx, !.current = r.tok,
                                       !.pulled = @ + 1]
                           : r \in {LexerNext(P.lexer)} })} })

\* an expect that advances before it raises the error
expect_late(P, expected) ==
    IF P.current.token_type = expected
    THEN ParserNext(P)
    ELSE syntax_error(ParserNext(P), <<"Expected", expected>>)

\* Parser::expect
expect(P, expected) ==
    IF P.current.token_type = expected
    THEN ParserNext(P)
    ELSE syntax_error(P, <<"Expected", expected>>)

\* a parser together with the value a grammar procedure returns
R(P, v) == [p |-> P, v |-> v]

\* ast::Expr::Error and ast::Type::Error
ErrorNode(line, column) == [kind |-> "Error", line |-> line, column |-> column]

\* the identifier of the current token, "" after "Expected identifier"
IdenOf(P) == IF P.current.token_type = "Iden" THEN P.current.payload ELSE <<>>

ExpectIden(P) ==
    IF P.current.token_type = "Iden" THEN P
    ELSE syntax_error(P, <<"Expected identifier">>)

\* Parser::types
types(P) ==
    LET line == P.current.line
        column == P.current.column
        tt == P.current.token_type
        isType == tt \in {"KwInt", "KwFloat", "KwChar", "KwStr", "KwBool"}
        t == IF isType
             THEN [kind |-> CASE tt = "KwInt" -> "Int" [] tt = "KwFloat" -> "Float"
                              [] tt = "KwChar" -> "Char" [] tt = "KwStr" -> "Str"
                              [] OTHER -> "Bool",
                   line |-> line, column |-> column]
             ELSE ErrorNode(line, column)
    IN  The({ IF p1.current.token_type = "LBracket"
              THEN R(expect(ParserNext(p1), "RBracket"),
                     [kind |-> "Array", element_type |-> t,
                      line |-> line, column |-> column])
              ELSE R(p1, t)
            : p1 \in {ParserNext(IF isType THEN P
                                 ELSE syntax_error(P, <<"Expected type">>))} })

\* Parser::typed_ident
typed_ident(P) ==
    The({ R(t.p, [id |-> IdenOf(P), type |-> t.v])
        : t \in {types(expect(ParserNext(ExpectIden(P)), "Colon"))} })

\* the list of a first element and the list after it
Cons(car, cdr) == R(cdr.p, <<car.v>> \o cdr.v)

\* Parser::param_list
RECURSIVE param_list(_)
param_list(P) ==
    IF P.status # "ok" \/ P.current.token_type = "RPar"
    THEN R(P, <<>>)
    ELSE The({ IF idt.p.current.token_type = "Comma"
               THEN Cons(idt, param_list(ParserNext(idt.p)))
               ELSE R(idt.p, <<idt.v>>)
             : idt \in {typed_ident(P)} })


\* the binary operators of the eight precedence levels, loosest first:
\* the levels with the additive and the multiplicative operators exchanged
LevelOp_swapped(lvl, tt) ==
    CASE lvl = 1 /\ tt = "KwOr" -> "LogOr"
      [] lvl = 2 /\ tt = "KwAnd" -> "LogAnd"
      [] lvl = 3 /\ tt = "Eq" -> "Eq"
      [] lvl = 3 /\ tt = "NEq" -> "NEq"
      [] lvl = 4 /\ tt = "LT" -> "LT"
      [] lvl = 4 /\ tt = "GT" -> "GT"
      [] lvl = 4 /\ tt = "LEq" -> "LEq"
      [] lvl = 4 /\ tt = "GEq" -> "GEq"
      [] lvl = 5 /\ tt = "Pipe" -> "BitOr"
      [] lvl = 6 /\ tt = "Amp" -> "BitAnd"
      [] lvl = 8 /\ tt = "Plus" -> "Add"
      [] lvl = 8 /\ tt = "Minus" -> "Sub"
      [] lvl = 7 /\ tt = "Asterisk" -> "Mul"
      [] lvl = 7 /\ tt = "Slash" -> "Div"
      [] lvl = 7 /\ tt = "Percent" -> "Mod"
      [] OTHER -> "None"

\* log_or_expr, log_and_expr, eq_neq_expr, comp_expr, bit_or, bit_and_expr,
\* add_sub_expr, mul_div_mod_expr
LevelOp(lvl, tt) ==
    CASE lvl = 1 /\ tt = "KwOr" -> "LogOr"
      [] lvl = 2 /\ tt = "KwAnd" -> "LogAnd"
      [] lvl = 3 /\ tt = "Eq" -> "Eq"
      [] lvl = 3 /\ tt = "NEq" -> "NEq"
      [] lvl = 4 /\ tt = "LT" -> "LT"
      [] lvl = 4 /\ tt = "GT" -> "GT"
      [] lvl = 4 /\ tt = "LEq" -> "LEq"
      [] lvl = 4 /\ tt = "GEq" -> "GEq"
      [] lvl = 5 /\ tt = "Pipe" -> "BitOr"
      [] lvl = 6 /\ tt = "Amp" -> "BitAnd"
      [] lvl = 7 /\ tt = "Plus" -> "Add"
      [] lvl = 7 /\ tt = "Minus" -> "Sub"
      [] lvl = 8 /\ tt = "Asterisk" -> "Mul"
      [] lvl = 8 /\ tt = "Slash" -> "Div"
      [] lvl = 8 /\ tt = "Percent" -> "Mod"
      [] OTHER -> "None"

\* the number of binary precedence levels
Levels == 8

\* an operator node (ast::BinOp, ast::UnOp) at the current token
OpNode(P, kind) == [kind |-> kind, line |-> P.current.line, column |-> P.current.column]

\* a literal node of primary_expr, or Expr::Error after "Invalid integer"
LiteralNode(kind, parsed, line, column) ==
    IF parsed = None THEN ErrorNode(line, column)
    ELSE [kind |-> kind, value |-> parsed.value, line |-> line, column |-> column]

RECURSIVE binary_expr(_, _), binary_loop(_, _, _), unary_expr(_), primary_expr(_),
          comma_list(_), stmt(_), multi_stmt(_)

\* a fold of a level that nests to the right: the rest of the chain at the
\* same level becomes the right operand
binary_loop_right(P, lvl, l) ==
    IF P.status = "ok" /\ LevelOp(lvl, P.current.token_type) # "None"
    THEN The({ R(r.p, [kind |-> "BinaryOp", l |-> l,
                       op |-> OpNode(P, LevelOp(lvl, P.current.token_type)),
                       r |-> r.v])
             : r \in {binary_expr(ParserNext(P), lvl)} })
    ELSE R(P, l)

\* a unary_expr whose operand is again a unary_expr, so that prefix
\* operators nest
unary_expr_nested(P) ==
    LET tt == P.current.token_type IN
    CASE tt = "Plus" -> unary_expr(ParserNext(P))
      [] tt \in {"Minus", "KwNot", "Tilde"} ->
            The({ R(e.p, [kind |-> "UnaryOp",
                          op |-> OpNode(P, CASE tt = "Minus" -> "Neg"
                                             [] tt = "KwNot" -> "LogNot"
                                             [] OTHER -> "BitNot"),
                          expr |-> e.v])
                : e \in {unary_expr(ParserNext(P))} })
      [] OTHER -> primary_expr(P)

\* Parser::expr
expr(P) == binary_expr(P, 1)

\* Parser::log_or_expr .. Parser::mul_div_mod_expr: one operand of the next
\* level, then the fold of the level's operators
binary_expr(P, lvl) ==
    IF lvl > Levels THEN unary_expr(P)
    ELSE The({ binary_loop(l.p, lvl, l.v) : l \in {binary_expr(P, lvl + 1)} })

\* the while/loop of a precedence level, l being the operand folded so far
binary_loop(P, lvl, l) ==
    IF P.status = "ok" /\ LevelOp(lvl, P.current.token_type) # "None"
    THEN The({ binary_loop(r.p, lvl,
                           [kind |-> "BinaryOp", l |-> l,
                            op |-> OpNode(P, LevelOp(lvl, P.current.token_type)),
                            r |-> r.v])
             : r \in {binary_expr(ParserNext(P), lvl + 1)} })
    ELSE R(P, l)

\* Parser::unary_expr
unary_expr(P) ==
    LET tt == P.current.token_type IN
    CASE tt = "Plus" -> primary_expr(ParserNext(P))
      [] tt \in {"Minus", "KwNot", "Tilde"} ->
            The({ R(e.p, [kind |-> "UnaryOp",
                          op |-> OpNode(P, CASE tt = "Minus" -> "Neg"
                                             [] tt = "KwNot" -> "LogNot"
                                             [] OTHER -> "BitNot"),
                          expr |-> e.v])
                : e \in {primary_expr(ParserNext(P))} })
      [] OTHER -> primary_expr(P)

\* an identifier arm whose assignment takes one operand as its value
primary_iden_operand(P, line, column) ==
    LET id == P.current.payload IN
    The({ CASE p1.current.token_type = "Assign" ->
                  The({ R(e.p, [kind |-> "Assign", id |-> id, expr |-> e.v,
                                line |-> line, column |-> column])
                      : e \in {unary_expr(ParserNext(p1))} })
            [] p1.current.token_type = "LPar" ->
                  The({ R(expect(args.p, "RPar"),
                          [kind |-> "Call", id |-> id, args |-> args.v,
                           line |-> line, column |-> column])
                      : args \in {comma_list(ParserNext(p1))} })
            [] p1.current.token_type = "LBracket" ->
                  The({ R(expect(index.p, "RBracket"),
                          [kind |-> "ArrayExpr", id |-> id, index |-> index.v,
                           line |-> line, column |-> column])
                      : index \in {expr(ParserNext(p1))} })
            [] OTHER -> R(p1, [kind |-> "Identifier", id |-> id,
                               line |-> line, column |-> column])
        : p1 \in {ParserNext(P)} })

\* Parser::primary_expr, the arm of an identifier
primary_iden(P, line, column) ==
    LET id == P.current.payload IN
    The({ CASE p1.current.token_type = "Assign" ->
                  The({ R(e.p, [kind |-> "Assign", id |-> id, expr |-> e.v,
                                line |-> line, column |-> column])
                      : e \in {expr(ParserNext(p1))} })
            [] p1.current.token_type = "LPar" ->
                  The({ R(expect(args.p, "RPar"),
                          [kind |-> "Call", id |-> id, args |-> args.v,
                           line |-> line, column |-> column])
                      : args \in {comma_list(ParserNext(p1))} })
            [] p1.current.token_type = "LBracket" ->
                  The({ R(expect(index.p, "RBracket"),
                          [kind |-> "ArrayExpr", id |-> id, index |-> index.v,
                           line |-> line, column |-> column])
                      : index \in {expr(ParserNext(p1))} })
            [] OTHER -> R(p1, [kind |-> "Identifier", id |-> id,
                               line |-> line, column |-> column])
        : p1 \in {ParserNext(P)} })

\* Parser::primary_expr, the arms of the integer and float literals: the
\* syntax error of a text that does not parse is raised before next()
primary_number(P, parsed, kind, line, column) ==
    R(ParserNext(IF parsed = None THEN syntax_error(P, <<"Invalid integer">>) ELSE P),
      LiteralNode(kind, parsed, line, column))

\* Parser::primary_expr, the arm of a character literal: next() is called
\* before the syntax error of a text that is no character
primary_char(p1, parsed_char, line, column) ==
    IF parsed_char # None
    THEN R(p1, LiteralNode("LiteralChar", parsed_char, line, column))
    ELSE R(syntax_error(p1, <<"Invalid character">>), ErrorNode(line, column))

\* Parser::primary_expr
primary_expr(P) ==
    LET line == P.current.line
        column == P.current.column
        tt == P.current.token_type
        pl == P.current.payload
    IN  CASE P.status # "ok" -> R(P, ErrorNode(line, column))
          [] tt = "LiteralStr" ->
                R(ParserNext(P), [kind |-> "LiteralStr", value |-> ResolveStr(pl),
                                  line |-> line, column |-> column])
          [] tt = "LiteralChar" ->
                primary_char(ParserNext(P), ResolveChar(pl), line, column)
          [] tt = "LiteralFloat" ->
                primary_number(P, parse_f64(pl), "LiteralFloat", line, column)
          [] tt = "LiteralIntDec" ->
                primary_number(P, from_str_radix(pl, 10), "LiteralInt", line, column)
          [] tt = "LiteralIntHex" ->
                primary_number(P, from_str_radix(SubSeq(pl, 3, Len(pl)), 16), "LiteralInt", line, column)
          [] tt = "LiteralIntBin" ->
                primary_number(P, from_str_radix(SubSeq(pl, 3, Len(pl)), 2), "LiteralInt", line, column)
          [] tt = "LiteralIntOct" ->
                primary_number(P, from_str_radix(SubSeq(pl, 3, Len(pl)), 8), "LiteralInt", line, column)
          [] tt \in {"KwTrue", "KwFalse"} ->
                R(ParserNext(P), [kind |-> "LiteralBool", value |-> (tt = "KwTrue"),
                                  line |-> line, column |-> column])
          [] tt = "LBracket" ->
                The({ R(expect(elements.p, "RBracket"),
                        [kind |-> "LiteralArray", elements |-> elements.v,
                         line |-> line, column |-> column])
                    : elements \in {comma_list(ParserNext(P))} })
          [] tt = "LPar" ->
                The({ R(expect(e.p, "RPar"), e.v) : e \in {expr(ParserNext(P))} })
          [] tt = "Iden" -> primary_iden(P, line, column)
          [] OTHER -> R(syntax_error(P, <<"Expected expression">>), ErrorNode(line, column))

\* Parser::comma_list
comma_list(P) ==
    IF P.status # "ok" \/ P.current.token_type \in {"RPar", "RBracket", "RBrace"}
    THEN R(P, <<>>)
    ELSE The({ IF e.p.current.token_type = "Comma"
               THEN Cons(e, comma_list(ParserNext(e.p)))
               ELSE R(e.p, <<e.v>>)
             : e \in {expr(P)} })


\* Parser::let_stmt
let_stmt(P) ==
    The({ The({ The({ R(expect(e.p, "Semicolon"),
                        [kind |-> "Let", id |-> idt.v.id, var_type |-> idt.v.type,
                         expr |-> e.v,
                         line |-> p1.current.line, column |-> p1.current.column])
                    : e \in {IF idt.p.current.token_type = "Assign"
                             THEN expr(ParserNext(idt.p))
                             ELSE R(idt.p, None)} })
              : idt \in {typed_ident(p1)} })
        : p1 \in {expect(P, "KwLet")} })

\* Parser::expr_stmt
expr_stmt(P) ==
    The({ R(expect(e.p, "Semicolon"), [kind |-> "Expr", expr |-> e.v])
        : e \in {expr(P)} })

\* Parser::if_stmt
if_stmt(P) ==
    The({ The({ The({ The({ R(else_stmt.p,
                              [kind |-> "If", cond |-> cond.v,
                               then_stmt |-> then_stmt.v, else_stmt |-> else_stmt.v,
                               line |-> p1.current.line, column |-> p1.current.column])
                          : else_stmt \in {IF then_stmt.p.current.token_type = "KwElse"
                                           THEN stmt(ParserNext(then_stmt.p))
                                           ELSE R(then_stmt.p, None)} })
                    : then_stmt \in {stmt(cond.p)} })
              : cond \in {expr(p1)} })
        : p1 \in {expect(P, "KwIf")} })

\* Parser::while_stmt
while_stmt(P) ==
    The({ The({ The({ R(body.p, [kind |-> "While", cond |-> cond.v, body |-> body.v,
                                 line |-> p1.current.line,
                                 column |-> p1.current.column])
                    : body \in {stmt(cond.p)} })
              : cond \in {expr(p1)} })
        : p1 \in {expect(P, "KwWhile")} })

\* Parser::for_stmt
for_stmt(P) ==
    The({ The({ The({ The({ R(body.p,
                              [kind |-> "For", id |-> IdenOf(p1), start |-> start.v,
                               end |-> end.v, body |-> body.v,
                               line |-> p1.current.line, column |-> p1.current.column])
                          : body \in {stmt(end.p)} })
                    : end \in {expr(expect(start.p, "KwTo"))} })
              : start \in {expr(expect(ParserNext(ExpectIden(p1)), "Assign"))} })
        : p1 \in {expect(P, "KwFor")} })

\* Parser::return_stmt
return_stmt(P) ==
    The({ The({ R(expect(e.p, "Semicolon"),
                  [kind |-> "Return", expr |-> e.v,
                   line |-> p1.current.line, column |-> p1.current.column])
              : e \in {expr(p1)} })
        : p1 \in {expect(P, "KwReturn")} })

\* Parser::block_stmt
block_stmt(P) ==
    The({ The({ R(expect(stmts.p, "RBrace"),
                  [kind |-> "Block", stmts |-> stmts.v,
                   line |-> p1.current.line, column |-> p1.current.column])
              : stmts \in {multi_stmt(p1)} })
        : p1 \in {expect(P, "LBrace")} })

\* Parser::stmt
stmt(P) ==
    LET tt == P.current.token_type IN
    CASE P.status # "ok" -> R(P, None)
      [] tt = "KwLet" -> let_stmt(P)
      [] tt = "KwIf" -> if_stmt(P)
      [] tt = "KwWhile" -> while_stmt(P)
      [] tt = "KwFor" -> for_stmt(P)
      [] tt = "KwReturn" -> return_stmt(P)
      [] tt = "LBrace" -> block_stmt(P)
      [] tt = "Semicolon" ->
            The({ R(p1, [kind |-> "Empty", line |-> p1.current.line,
                         column |-> p1.current.column])
                : p1 \in {ParserNext(P)} })
      [] OTHER -> expr_stmt(P)

\* Parser::multi_stmt
multi_stmt(P) ==
    IF P.status # "ok" \/ P.current.token_type = "RBrace"
    THEN R(P, <<>>)
    ELSE The({ Cons(s, multi_stmt(s.p)) : s \in {stmt(P)} })

\* Parser::func
func(P) ==
    The({ The({ The({ The({ R(body.p,
                              [kind |-> "FnDef", id |-> IdenOf(p1),
                               params |-> params.v,
                               return_type |-> return_type.v, body |-> body.v,
                               line |-> p1.current.line, column |-> p1.current.column])
                          : body \in {stmt(return_type.p)} })
                    : return_type \in
                          {The({ IF p4.current.token_type = "Colon"
                                 THEN types(ParserNext(p4))
                                 ELSE R(p4, None)
                               : p4 \in {expect(params.p, "RPar")} })} })
              : params \in {param_list(expect(ParserNext(ExpectIden(p1)), "LPar"))} })
        : p1 \in {expect(P, "KwFn")} })

\* a prog that collects the functions last first
RECURSIVE prog_reversed(_)
prog_reversed(P) ==
    CASE P.status # "ok" -> R(P, <<>>)
      [] P.current.token_type = "KwFn" ->
            The({ The({ R(rest.p, rest.v \o <<f.v>>) : rest \in {prog_reversed(f.p)} })
                : f \in {func(P)} })
      [] P.current.token_type = "EOF" -> R(P, <<>>)
      [] OTHER -> R(syntax_error(P, <<"Expected fn">>), <<>>)

\* a program loop that pulls one more token when it has reached EOF
RECURSIVE prog_past_eof(_)
prog_past_eof(P) ==
    CASE P.status # "ok" -> R(P, <<>>)
      [] P.current.token_type = "KwFn" ->
            The({ Cons(f, prog_past_eof(f.p)) : f \in {func(P)} })
      [] P.current.token_type = "EOF" -> R(ParserNext(P), <<>>)
      [] OTHER -> R(syntax_error(P, <<"Expected fn">>), <<>>)

\* Parser::prog
RECURSIVE prog(_)
prog(P) ==
    CASE P.status # "ok" -> R(P, <<>>)
      [] P.current.token_type = "KwFn" ->
            The({ Cons(f, prog(f.p)) : f \in {func(P)} })
      [] P.current.token_type = "EOF" -> R(P, <<>>)
      [] OTHER -> R(syntax_error(P, <<"Expected fn">>), <<>>)

\* Parser::parse, with the program of prog() kept as the value
parse(P) == prog(ParserNext(P))


(***************************************************************************)
(* The two programs: lexer/src/main.rs calls Lexer::next() token by token, *)
(* parser/src/main.rs calls Parser::parse() once.                          *)
(***************************************************************************)
\* the texts of at most n characters of cs
Strs(cs, n) == UNION {[1..k -> cs] : k \in 0..n}

\* the stream is exhausted and current is the '\0' of next_char
AtEnd(L) == L.stream = <<>> /\ L.current = NUL

\* the index in the source of the lexer's current character
Cursor(L) == IF AtEnd(L) THEN Len(source) + 1 ELSE Len(source) - Len(L.stream)

\* the source text between the first character of the token scanned from L
\* and the current character of the lexer L2 after the call
Lexeme(L, L2) == SubSeq(source, Cursor(consume_whitespace(L)), Cursor(L2) - 1)

(***************************************************************************)
(* SymbolTable (semantic/src/symbol_table.rs).  A table is a record of its *)
(* upper scope, None or Some(table), and its symbols, a map from           *)
(* identifiers to symbols.  The results are Ok(v) and Err(e).              *)
(***************************************************************************)
Ok(v) == [kind |-> "Ok", value |-> v]
Err(e) == [kind |-> "Err", error |-> e]
SymbolNotFound(identifier) == [kind |-> "SymbolNotFound", identifier |-> identifier]
SymbolAlreadyExists(identifier) == [kind |-> "SymbolAlreadyExists", identifier |-> identifier]

Function(identifier, return_type, parameters) ==
    [kind |-> "Function", identifier |-> identifier, return_type |-> return_type,
     parameters |-> parameters]
Variable(identifier, var_type) ==
    [kind |-> "Variable", identifier |-> identifier, var_type |-> var_type]

\* HashMap::new, HashMap::contains_key and HashMap::insert
HashMapNew == [k \in {} |-> k]
contains_key(m, k) == k \in DOMAIN m
insert(m, k, v) == [x \in DOMAIN m \cup {k} |-> IF x = k THEN v ELSE m[x]]

\* SymbolTable::new
SymbolTableNew(upper_scope) == [upper_scope |-> upper_scope, symbols |-> HashMapNew]

\* SymbolTable::exists
RECURSIVE exists(_, _)
exists(T, identifier) ==
    IF contains_key(T.symbols, identifier) THEN TRUE
    ELSE IF T.upper_scope # None THEN exists(T.upper_scope.value, identifier)
    ELSE FALSE

\* an add that refuses an identifier declared in any scope of the chain
add_unshadowed(T, symbol) ==
    IF exists(T, symbol.identifier)
    THEN [table |-> T, ret |-> Err(SymbolAlreadyExists(symbol.identifier))]
    ELSE [table |-> [T EXCEPT !.symbols = insert(@, symbol.identifier, symbol)],
          ret |-> Ok(<<>>)]

\* SymbolTable::add: the table after the call and the result
add(T, symbol) ==
    IF contains_key(T.symbols, symbol.identifier)
    THEN [table |-> T, ret |-> Err(SymbolAlreadyExists(symbol.identifier))]
    ELSE [table |-> [T EXCEPT !.symbols = insert(@, symbol.identifier, symbol)],
          ret |-> Ok(<<>>)]

\* a get that looks in the upper scopes before the scope itself
RECURSIVE get_outermost(_, _)
get_outermost(T, identifier) ==
    IF T.upper_scope # None /\ exists(T.upper_scope.value, identifier)
    THEN get_outermost(T.upper_scope.value, identifier)
    ELSE IF contains_key(T.symbols, identifier) THEN Ok(T.symbols[identifier])
    ELSE Err(SymbolNotFound(identifier))

\* SymbolTable::get
RECURSIVE get(_, _)
get(T, identifier) ==
    IF contains_key(T.symbols, identifier) THEN Ok(T.symbols[identifier])
    ELSE IF T.upper_scope # None THEN get(T.upper_scope.value, identifier)
    ELSE Err(SymbolNotFound(identifier))

(***************************************************************************)
(* Display of the AST (parser/src/ast.rs).  A text is the sequence of its  *)
(* characters.                                                             *)
(***************************************************************************)
INDENT_LEN == 4

\* str::repeat
RECURSIVE repeat(_, _)
repeat(s, n) == IF n = 0 THEN <<>> ELSE s \o repeat(s, n - 1)

\* impl Display for BinOp
fmt_binop(op) ==
    CASE op.kind = "Add" -> <<"+">>
      [] op.kind = "Sub" -> <<"-">>
      [] op.kind = "Mul" -> <<"*">>
      [] op.kind = "Div" -> <<"/">>
      [] op.kind = "Mod" -> <<"%">>
      [] op.kind = "LogAnd" -> <<"a", "n", "d">>
      [] op.kind = "LogOr" -> <<"o", "r">>
      [] op.kind = "BitAnd" -> <<"&">>
      [] op.kind = "BitOr" -> <<"|">>
      [] op.kind = "Eq" -> <<"=", "=">>
      [] op.kind = "NEq" -> <<"!", "=">>
      [] op.kind = "LT" -> <<"<">>
      [] op.kind = "GT" -> <<">">>
      [] op.kind = "LEq" -> <<"<", "=">>
      [] op.kind = "GEq" -> <<">", "=">>

\* impl Display for UnOp
fmt_unop(op) ==
    CASE op.kind = "Neg" -> <<"-">>
      [] op.kind = "LogNot" -> <<"n", "o", "t">>
      [] op.kind = "BitNot" -> <<"~">>

\* Display of the f64 of the decimal mantissa and exponent: the digits of
\* the value, with a point when it has a fraction, never an exponent
fmt_f64_digits(ds, e) ==
    IF e >= 0 THEN ds \o repeat(<<"0">>, e)
    ELSE IF Len(ds) > 0 - e
         THEN SubSeq(ds, 1, Len(ds) + e) \o <<".">> \o SubSeq(ds, Len(ds) + e + 1, Len(ds))
         ELSE <<"0", ".">> \o repeat(<<"0">>, (0 - e) - Len(ds)) \o ds
fmt_f64(v) == IF v.mantissa = 0 THEN <<"0">> ELSE fmt_f64_digits(fmt_int(v.mantissa), v.exp)

\* impl Display for Expr
RECURSIVE fmt_expr(_), fmt_exprs(_)
fmt_expr(e) ==
    CASE e.kind = "LiteralInt" -> fmt_int(e.value)
      [] e.kind = "LiteralStr" -> <<DQ>> \o e.value \o <<DQ>>
      [] e.kind = "LiteralChar" -> <<e.value>>
      [] e.kind = "LiteralFloat" -> fmt_f64(e.value)
      [] e.kind = "LiteralBool" ->
            IF e.value THEN <<"t", "r", "u", "e">> ELSE <<"f", "a", "l", "s", "e">>
      [] e.kind = "LiteralArray" -> <<"[">> \o fmt_exprs(e.elements) \o <<"]">>
      [] e.kind = "BinaryOp" ->
            <<"(">> \o fmt_expr(e.l) \o <<" ">> \o fmt_binop(e.op) \o <<" ">>
                \o fmt_expr(e.r) \o <<")">>
      [] e.kind = "UnaryOp" ->
            <<"(">> \o fmt_unop(e.op) \o <<" ">> \o fmt_expr(e.expr) \o <<")">>
      [] e.kind = "Identifier" -> e.id
      [] e.kind = "Call" -> e.id \o <<"(">> \o fmt_exprs(e.args) \o <<")">>
      [] e.kind = "ArrayExpr" -> e.id \o <<"[">> \o fmt_expr(e.index) \o <<"]">>
      [] e.kind = "Assign" -> e.id \o <<" ", "=", " ">> \o fmt_expr(e.expr)
      [] e.kind = "Error" -> <<"e", "r", "r", "_", "e", "x", "p", "r">>

\* the loops over the elements of an array and the arguments of a call
fmt_exprs(es) ==
    IF es = <<>> THEN <<>>
    ELSE fmt_expr(Head(es))
            \o (IF Len(es) # 1 THEN <<",", " ">> ELSE <<>>) \o fmt_exprs(Tail(es))

\* impl Display for Type
RECURSIVE fmt_type(_)
fmt_type(t) ==
    CASE t.kind = "Int" -> <<"i", "n", "t">>
      [] t.kind = "Float" -> <<"f", "l", "o", "a", "t">>
      [] t.kind = "Char" -> <<"c", "h", "a", "r">>
      [] t.kind = "Str" -> <<"s", "t", "r">>
      [] t.kind = "Bool" -> <<"b", "o", "o", "l">>
      [] t.kind = "Array" -> fmt_type(t.element_type) \o <<"[", "]">>
      [] t.kind = "Error" -> <<"e", "r", "r", "_", "t", "y", "p", "e">>

\* Stmt::fmt_with_indent, the loop over the parameters of a function
RECURSIVE fmt_params(_)
fmt_params(params) ==
    IF params = <<>> THEN <<>>
    ELSE Head(params).id \o <<":", " ">> \o fmt_type(Head(params).type)
            \o (IF Len(params) # 1 THEN <<",", " ">> ELSE <<>>) \o fmt_params(Tail(params))

\* Stmt::fmt_with_indent; fmt_block is its loop over the statements of a
\* block
RECURSIVE fmt_with_indent(_, _, _), fmt_block(_, _, _)
fmt_with_indent(s, ind_lvl, pretty) ==
    CASE s.kind = "Let" ->
            <<"l", "e", "t", " ">> \o s.id \o <<":", " ">> \o fmt_type(s.var_type)
                \o (IF s.expr # None THEN <<" ", "=", " ">> \o fmt_expr(s.expr) ELSE <<>>)
      [] s.kind = "Expr" -> fmt_expr(s.expr)
      [] s.kind = "If" ->
            <<"i", "f", " ">> \o fmt_expr(s.cond) \o <<" ">>
                \o fmt_with_indent(s.then_stmt, ind_lvl, pretty)
                \o (IF s.else_stmt # None
                    THEN <<" ", "e", "l", "s", "e", " ">>
                             \o fmt_with_indent(s.else_stmt, ind_lvl, pretty)
                    ELSE <<>>)
      [] s.kind = "While" ->
            <<"w", "h", "i", "l", "e", " ">> \o fmt_expr(s.cond) \o <<" ">>
                \o fmt_with_indent(s.body, ind_lvl, pretty)
      [] s.kind = "For" ->
            <<"f", "o", "r", " ">> \o s.id \o <<" ", "=", " ">> \o fmt_expr(s.start)
                \o <<" ", "t", "o", " ">> \o fmt_expr(s.end) \o <<" ">>
                \o fmt_with_indent(s.body, ind_lvl, pretty)
      [] s.kind = "Return" -> <<"r", "e", "t", "u", "r", "n", " ">> \o fmt_expr(s.expr)
      [] s.kind = "Block" ->
            <<"{">> \o (IF pretty THEN <<NL>> ELSE <<>>)
                \o fmt_block(s.stmts, ind_lvl, pretty)
                \o repeat(IF pretty THEN repeat(<<" ">>, INDENT_LEN) ELSE <<>>, ind_lvl)
                \o <<"}">>
      [] s.kind = "FnDef" ->
            <<"f", "n", " ">> \o s.id \o <<"(">> \o fmt_params(s.params) \o <<")">>
                \o (IF s.return_type # None
                    THEN <<":", " ">> \o fmt_type(s.return_type) ELSE <<>>)
                \o <<" ">> \o fmt_with_indent(s.body, ind_lvl, pretty)
                \o (IF pretty THEN <<NL>> ELSE <<>>)
      [] s.kind = "Empty" -> <<>>

fmt_block(stmts, ind_lvl, pretty) ==
    IF stmts = <<>> THEN <<>>
    ELSE repeat(IF pretty THEN repeat(<<" ">>, INDENT_LEN) ELSE <<>>, ind_lvl + 1)
            \o fmt_with_indent(Head(stmts), ind_lvl + 1, pretty)
            \o (IF pretty THEN <<NL>> ELSE <<";">>)
            \o fmt_block(Tail(stmts), ind_lvl, pretty)

\* impl Display for Stmt: `{}` is the compact mode, `{:#}` the pretty one
fmt_stmt(s, alternate) == fmt_with_indent(s, 0, alternate)

\* the impl of Display that `{}` and `{:#}` select for a node
fmt_node(n, alternate) ==
    IF n.kind \in {"Let", "Expr", "If", "While", "For", "Return", "Block", "FnDef", "Empty"}
    THEN fmt_stmt(n, alternate)
    ELSE fmt_expr(n)

NoResult == [status |-> "none"]
NoReply == [op |-> "none"]

\* no node is rendered and there is no symbol table
FrontEndOnly ==
    /\ nodes = <<>>
    /\ table = <<>>
    /\ reply = NoReply

InitOn(d, srcs) ==
    /\ driver = d
    /\ source \in srcs
    /\ lexer = NewLexer(source)
    /\ tokens = <<>>
    /\ lexemes = <<>>
    /\ result = NoResult
    /\ texts = <<>>
    /\ FrontEndOnly

\* lexer/src/main.rs: one call of Lexer::next() and the println! of the
\* token it returned
NextToken ==
    /\ driver = "lexer"
    /\ Len(tokens) < MaxCalls
    /\ LET Returned(r) ==
               /\ lexer' = r.lx
               /\ tokens' = Append(tokens, r.tok)
               /\ lexemes' = Append(lexemes, Lexeme(lexer, r.lx))
               /\ texts' = Append(texts, fmt_token(r.tok))
       IN  Returned(LexerNext(lexer))
    /\ UNCHANGED <<driver, source, result, nodes, table, reply>>

\* parser/src/main.rs: Parser::new and Parser::parse()
Parse ==
    /\ driver = "parser"
    /\ result = NoResult
    /\ LET Returned(r) ==
               /\ lexer' = r.p.lexer
               /\ result' = [status |-> r.p.status,
                             program |-> IF r.p.status = "ok" THEN r.v ELSE <<>>,
                             err |-> r.p.err,
                             current |-> r.p.current,
                             pulled |-> r.p.pulled]
       IN  Returned(parse(NewParser(lexer)))
    /\ UNCHANGED <<driver, source, tokens, lexemes, texts, nodes, table, reply>>

\* Parser::next() as parse() and the grammar procedures call it: one call
\* on the parser held in result, the token it leaves in current being logged
Advance ==
    /\ driver = "next"
    /\ result.status = "ok"
    /\ Len(tokens) < MaxCalls
    /\ LET Returned(p) ==
               /\ result' = p
               /\ lexer' = p.lexer
               /\ tokens' = Append(tokens, p.current)
       IN  Returned(ParserNext(result))
    /\ UNCHANGED <<driver, source, lexemes, texts, nodes, table, reply>>

\* Lexer::new and Parser::new on a source, before the first advance
InitAdvanceOn(srcs) ==
    /\ driver = "next"
    /\ source \in srcs
    /\ lexer = NewLexer(source)
    /\ tokens = <<>>
    /\ lexemes = <<>>
    /\ result = NewParser(NewLexer(source))
    /\ texts = <<>>
    /\ FrontEndOnly

\* the characters of the sources
NumChars == {"0", "1", ".", "e", "E", "+", "-"}
StrChars == {DQ, BSL, "a", " "}
ChrChars == {SQ, BSL, "a", " "}
MiscChars == {"@", "#", "$", "!", "=", "<", ">", "/", "*", "a", "_", "0", ".",
              "(", ";", " ", NL}
BodyChars == {BSL, DQ, SQ, "a", "n", "q"}

FnHead == <<"f", "n", " ", "f", "(", ")">>

\* a program whose function body is the statement of one literal
LitSources ==
    {FnHead \o <<q>> \o b \o <<q, ";">> : q \in {DQ, SQ}, b \in Strs(BodyChars, MaxBodyLen)}

\* a program whose parameter list is made of at most MaxParams pieces
ParamPieces == {<<"a", ":", "i", "n", "t">>, <<",">>, <<"a">>}

RECURSIVE Flatten(_)
Flatten(ss) == IF ss = <<>> THEN <<>> ELSE Head(ss) \o Flatten(Tail(ss))

ParamSources ==
    {<<"f", "n", " ", "f", "(">> \o Flatten(ps) \o <<")", "{", "}">> :
        ps \in Strs(ParamPieces, MaxParams)}

\* a program whose function body is a statement nested at most MaxDepth deep
BaseStmts ==
    {<<";">>,
     <<"a", ";">>,
     <<"l", "e", "t", " ", "a", ":", "i", "n", "t", ";">>,
     <<"l", "e", "t", " ", "a", ":", "i", "n", "t", "=", "1", ";">>,
     <<"r", "e", "t", "u", "r", "n", " ", "a", ";">>,
     <<"{", "}">>}

RECURSIVE StmtTexts(_)
StmtTexts(d) ==
    IF d = 0 THEN BaseStmts
    ELSE LET S == StmtTexts(d - 1) IN
         S \cup {<<"i", "f", " ", "a", " ">> \o x : x \in S}
           \cup {<<"i", "f", " ", "a", " ">> \o x \o <<" ", "e", "l", "s", "e", " ">> \o y : x \in S, y \in S}
           \cup {<<"w", "h", "i", "l", "e", " ", "a", " ">> \o x : x \in S}
           \cup {<<"f", "o", "r", " ", "a", "=", "1", " ", "t", "o", " ", "a", " ">> \o x : x \in S}
           \cup {<<"{">> \o x \o <<NL>> \o y \o <<"}">> : x \in S, y \in S}

StmtSources == {FnHead \o x : x \in StmtTexts(MaxDepth)}

\* a program whose function body is the statement of one chain of operands
\* a, b, c .. joined by at most MaxOps binary operators
OpTexts ==
    {<<"o", "r">>, <<"a", "n", "d">>, <<"=", "=">>, <<"!", "=">>, <<"<">>, <<">">>,
     <<"<", "=">>, <<">", "=">>, <<"|">>, <<"&">>, <<"+">>, <<"-">>, <<"*">>,
     <<"/">>, <<"%">>}

RECURSIVE ChainText(_, _)
ChainText(ops, i) ==
    IF i > Len(ops) THEN <<>>
    ELSE <<" ">> \o ops[i] \o <<" ", LowerSeq[i + 1]>> \o ChainText(ops, i + 1)

BinSources ==
    {FnHead \o <<"a">> \o ChainText(ops, 1) \o <<";">> : ops \in Strs(OpTexts, MaxOps)}

\* a program whose function body is the statement of the operand a after at
\* most MaxPrefix prefix operators, alone or as the left operand of * or -
PrefixTexts == {<<"+", " ">>, <<"-", " ">>, <<"n", "o", "t", " ">>, <<"~", " ">>}
TailTexts == {<<>>, <<" ", "*", " ", "b">>, <<" ", "-", " ", "b">>}

UnarySources ==
    {FnHead \o Flatten(ps) \o <<"a">> \o t \o <<";">> :
        ps \in Strs(PrefixTexts, MaxPrefix), t \in TailTexts}

\* a source of tokens, comments and characters that are no token
TriviaPieces ==
    {<<"a", " ">>, <<";">>, <<"/", "*", "*", "/">>, <<"/", "*", NL, "*", "/">>,
     <<"/", "/", "c", NL>>, <<"#">>}

TriviaSources == {Flatten(ps) : ps \in Strs(TriviaPieces, MaxPieces)}

\* a program that is a prefix of the tokens of `fn f ( a : int ) : int { }`
\* followed by at most MaxExtra other tokens
BaseTokens ==
    << <<"f", "n">>, <<"f">>, <<"(">>, <<"a">>, <<":">>, <<"i", "n", "t">>, <<")">>,
       <<":">>, <<"i", "n", "t">>, <<"{">>, <<"}">> >>

ExtraTokens ==
    {<<"f", "n">>, <<"f">>, <<"(">>, <<")">>, <<":">>, <<"i", "n", "t">>, <<"{">>, <<"}">>}

RECURSIVE JoinTokens(_)
JoinTokens(ts) ==
    IF ts = <<>> THEN <<>> ELSE Head(ts) \o <<" ">> \o JoinTokens(Tail(ts))

HeaderSources ==
    {JoinTokens(SubSeq(BaseTokens, 1, k) \o x) :
        k \in 0..Len(BaseTokens), x \in Strs(ExtraTokens, MaxExtra)}

\* a source of tokens, blanks, tabs, newlines, a string and a block comment
\* of two lines
LayoutPieces ==
    {<<"a">>, <<" ">>, <<TAB>>, <<NL>>, <<"<", "=">>, <<DQ, NL, DQ>>,
     <<"/", "*", NL, "*", "/">>}

LayoutSources == {Flatten(ps) : ps \in Strs(LayoutPieces, MaxPieces)}

\* a program of functions, comments, a statement outside of a function and
\* a function that is not complete
ProgPieces ==
    {<<"f", "n", " ", "f", "(", ")", "{", "}">>,
     <<"f", "n", " ", "g", "(", ")", "{", "}">>,
     <<"/", "/", "c", NL>>, <<"/", "*", "c", "*", "/">>,
     <<"a", ";">>,
     <<"f", "n", " ", "h", "(">>}

ProgSources == {Flatten(ps) : ps \in Strs(ProgPieces, MaxPieces)}

\* a program whose function body is the statement of one integer literal
\* with a base prefix and at most MaxRadixLen digits
RadixPrefixes == {"b", "B", "o", "O", "x", "X"}
RadixChars == {"0", "1", "5", "f", "A"}

RadixSources ==
    {FnHead \o <<"0", p>> \o ds \o <<";">> :
        p \in RadixPrefixes, ds \in Strs(RadixChars, MaxRadixLen)}

InitNum == InitOn("lexer", Strs(NumChars, MaxNumLen))
InitStr == InitOn("lexer", Strs(StrChars, MaxStrLen))
InitChr == InitOn("lexer", Strs(ChrChars, MaxChrLen))
InitMisc == InitOn("lexer", Strs(MiscChars, MaxMiscLen))
InitLayout == InitOn("lexer", LayoutSources)
InitLit == InitOn("parser", LitSources)
InitParam == InitOn("parser", ParamSources)
InitStmt == InitOn("parser", StmtSources)
InitBin == InitOn("parser", BinSources)
InitUnary == InitOn("parser", UnarySources)
InitHeader == InitOn("parser", HeaderSources)
InitProg == InitOn("parser", ProgSources)
InitRadix == InitOn("parser", RadixSources)
InitAdvance == InitAdvanceOn(TriviaSources)

\* the punctuation and operator token types and the keyword token types
PunctuationKinds ==
    {"LPar", "RPar", "LBracket", "RBracket", "LBrace", "RBrace", "LT", "GT",
     "LEq", "GEq", "Eq", "NEq", "Assign", "Plus", "Minus", "Asterisk", "Slash",
     "Percent", "Pipe", "Amp", "Tilde", "Semicolon", "Colon", "Comma", "Period"}
KeywordKinds ==
    {"KwFor", "KwTo", "KwWhile", "KwIf", "KwElse", "KwTrue", "KwFalse", "KwOr",
     "KwAnd", "KwNot", "KwLet", "KwFn", "KwReturn", "KwInt", "KwChar", "KwBool",
     "KwFloat", "KwStr"}

\* the lexer's driver on the text of one punctuation or keyword token type
InitCanon == InitOn("lexer", {CanonicalText(tt) : tt \in PunctuationKinds \cup KeywordKinds})
SpecCanon == InitCanon /\ [][NextToken]_vars

\* the lexer's driver on sources that may hold a zero byte
NulChars == {NUL, "a", " "}
InitNul == InitOn("lexer", Strs(NulChars, MaxNulLen))
SpecNul == InitNul /\ [][NextToken]_vars

\* a function whose body is a chain of identifiers, some of them negated,
\* joined by `=` and by binary operators:  fn f()a = - b * c;
AssignOps == {<<"=">>, <<"*">>, <<"+">>, <<"<">>}
Operand(i, negs) == (IF i \in negs THEN <<"-", " ">> ELSE <<>>) \o <<LowerSeq[i]>>

RECURSIVE AssignChain(_, _, _)
AssignChain(ops, negs, i) ==
    IF i > Len(ops) THEN <<>>
    ELSE <<" ">> \o ops[i] \o <<" ">> \o Operand(i + 1, negs)
             \o AssignChain(ops, negs, i + 1)

AssignSources ==
    {FnHead \o Operand(1, negs) \o AssignChain(ops, negs, 1) \o <<";">> :
        ops \in {o \in Strs(AssignOps, MaxChainOps) :
                    Cardinality({i \in DOMAIN o : o[i] = <<"=">>}) <= MaxAssigns},
        negs \in SUBSET (1..(MaxChainOps + 1))}

InitAssign == InitOn("parser", AssignSources)
SpecAssign == InitAssign /\ [][Parse]_vars

\* programs cut off after any number of characters: a head, a block inside
\* d more blocks, and a tail
TruncHeads ==
    <<<<"f", "n", " ", "f", "(", "a", ":", " ", "i", "n", "t", ",", " ",
              "b", ":", " ", "s", "t", "r", "[", "]", ")", ":", " ",
              "i", "n", "t", " ">>,
      <<"f", "n", " ", "f", "(", ")", " ">>,
      <<"f", "n", " ", "f", "(", ")", " ">>,
      <<"f", "n", " ", "f", "(", ")", " ">>,
      <<"f", "n", " ", "f", "(", ")", " ">>,
      <<"f", "n", " ", "f", "(", ")", " ">>,
      <<"f", "n", " ", "f", "(", ")", " ">>,
      <<"f", "n", " ", "f", "(", ")", " ">>>>
TruncBodies ==
    <<<<"{", " ", "}">>,
      <<"{", " ", "r", "e", "t", "u", "r", "n", " ", "g", "(", "a", ",",
              " ", "b", ")", ";", " ", "}">>,
      <<"{", " ", "b", "[", "1", "]", ";", " ", "}">>,
      <<"{", " ", "[", "1", ",", " ", "2", "]", ";", " ", "}">>,
      <<"{", " ", "l", "e", "t", " ", "x", ":", " ", "i", "n", "t", " ",
              "=", " ", "(", "a", " ", "+", " ", "b", ")", " ", "*",
              " ", "-", " ", "c", ";", " ", "}">>,
      <<"{", " ", "i", "f", " ", "x", " ", "y", " ", "=", " ", "1", ";",
              " ", "e", "l", "s", "e", " ", ";", " ", "}">>,
      <<"{", " ", "w", "h", "i", "l", "e", " ", "x", " ", "{", " ", "}",
              " ", "}">>,
      <<"{", " ", "f", "o", "r", " ", "i", " ", "=", " ", "1", " ", "t",
              "o", " ", "n", " ", "g", "(", ")", ";", " ", "}">>>>
TruncTails ==
    <<<<>>,
      <<>>,
      <<>>,
      <<>>,
      <<>>,
      <<>>,
      <<>>,
      <<" ", "f", "n", " ", "h", "(", ")", " ", "{", " ", "}">>>>

RECURSIVE Wrap(_, _)
Wrap(text, d) == IF d = 0 THEN text ELSE <<"{", " ">> \o Wrap(text, d - 1) \o <<" ", "}">>

Prefixes(s) == {SubSeq(s, 1, k) : k \in 0..Len(s)}

TruncSources ==
    UNION {Prefixes(TruncHeads[i] \o Wrap(TruncBodies[i], d) \o TruncTails[i]) :
              i \in DOMAIN TruncHeads, d \in 0..MaxDepth}

InitTrunc == InitOn("parser", TruncSources)
SpecTrunc == InitTrunc /\ [][Parse]_vars

\* the identifiers and the symbols given to the table
SymbolNames == {"a", "b"}
Symbols ==
    {Variable(n, "int") : n \in SymbolNames}
        \cup {Function(n, "int", <<Variable("a", "str")>>) : n \in SymbolNames}

\* the number of scopes of the chain of a table
RECURSIVE ScopeCount(_)
ScopeCount(T) == IF T.upper_scope = None THEN 1 ELSE 1 + ScopeCount(T.upper_scope.value)

\* a user of the semantic crate: the table of the outermost scope
InitTable ==
    /\ driver = "semantic"
    /\ source = <<>>
    /\ lexer = NewLexer(source)
    /\ tokens = <<>>
    /\ lexemes = <<>>
    /\ result = NoResult
    /\ texts = <<>>
    /\ nodes = <<>>
    /\ table = SymbolTableNew(None)
    /\ reply = NoReply

\* a scope is entered: SymbolTable::new(Some(table))
EnterScope ==
    /\ driver = "semantic"
    /\ ScopeCount(table) < MaxScopes
    /\ table' = SymbolTableNew(Some(table))
    /\ reply' = [op |-> "new", arg |-> <<>>, ret |-> <<>>, before |-> table]
    /\ UNCHANGED <<driver, source, lexer, tokens, lexemes, result, texts, nodes>>

\* table.add(symbol)
Add ==
    /\ driver = "semantic"
    /\ \E symbol \in Symbols :
          /\ table' = add(table, symbol).table
          /\ reply' = [op |-> "add", arg |-> symbol, ret |-> add(table, symbol).ret,
                       before |-> table]
    /\ UNCHANGED <<driver, source, lexer, tokens, lexemes, result, texts, nodes>>

\* table.get(identifier)
Get ==
    /\ driver = "semantic"
    /\ \E identifier \in SymbolNames :
          reply' = [op |-> "get", arg |-> identifier, ret |-> get(table, identifier),
                    before |-> table]
    /\ UNCHANGED <<driver, source, lexer, tokens, lexemes, result, texts, nodes, table>>

\* table.exists(identifier)
Exists ==
    /\ driver = "semantic"
    /\ \E identifier \in SymbolNames :
          reply' = [op |-> "exists", arg |-> identifier, ret |-> exists(table, identifier),
                    before |-> table]
    /\ UNCHANGED <<driver, source, lexer, tokens, lexemes, result, texts, nodes, table>>

SpecTable == InitTable /\ [][EnterScope \/ Add \/ Get \/ Exists]_vars

\* AST nodes made by hand, all at line 1, column 1
At(n) == [x \in DOMAIN n \cup {"line", "column"} |->
             IF x \in {"line", "column"} THEN 1 ELSE n[x]]
IdentifierNode(id) == At([kind |-> "Identifier", id |-> id])
ExprStmt(e) == [kind |-> "Expr", expr |-> e]
IfNode(cond, then_stmt, else_stmt) ==
    At([kind |-> "If", cond |-> cond, then_stmt |-> then_stmt, else_stmt |-> else_stmt])

\* the identifier `a` and the character `a`
Operands == {IdentifierNode(<<"a">>), At([kind |-> "LiteralChar", value |-> "a"])}

RenderedExprs ==
    Operands
      \cup {At([kind |-> "LiteralInt", value |-> 10]),
            At([kind |-> "LiteralStr", value |-> <<"a">>]),
            At([kind |-> "LiteralBool", value |-> TRUE]),
            At([kind |-> "LiteralFloat", value |-> Normalize(15, -1)]),
            At([kind |-> "LiteralFloat", value |-> Normalize(1, 1)]),
            At([kind |-> "Call", id |-> <<"a">>, args |-> <<>>]),
            ErrorNode(1, 1)}
      \cup {[kind |-> "BinaryOp", l |-> x, op |-> At([kind |-> "Add"]), r |-> y] :
               x \in Operands, y \in Operands}
      \cup {[kind |-> "UnaryOp", op |-> At([kind |-> "Neg"]), expr |-> x] : x \in Operands}
      \cup {At([kind |-> "Assign", id |-> <<"a">>, expr |-> x]) : x \in Operands}
      \cup {At([kind |-> "Call", id |-> <<"a">>, args |-> <<x, x>>]) : x \in Operands}
      \cup {At([kind |-> "ArrayExpr", id |-> <<"a">>, index |-> x]) : x \in Operands}
      \cup {At([kind |-> "LiteralArray", elements |-> <<x, x>>]) : x \in Operands}

\* the statements `a` and `b`, and the if statements of depth d over them
PlainStmts == {ExprStmt(IdentifierNode(<<"a">>)), ExprStmt(IdentifierNode(<<"b">>))}

RECURSIVE IfStmts(_)
IfStmts(d) ==
    IF d = 0 THEN PlainStmts
    ELSE IfStmts(d - 1)
           \cup {IfNode(IdentifierNode(<<"a">>), s, e) :
                    s \in IfStmts(d - 1), e \in {None} \cup PlainStmts}

RenderedStmts ==
    IfStmts(MaxIfDepth)
      \cup {At([kind |-> "Empty"]),
            At([kind |-> "Block", stmts |-> <<>>]),
            At([kind |-> "Return", expr |-> IdentifierNode(<<"a">>)]),
            At([kind |-> "While", cond |-> IdentifierNode(<<"a">>),
                body |-> At([kind |-> "Empty"])]),
            At([kind |-> "For", id |-> <<"a">>, start |-> IdentifierNode(<<"a">>),
                end |-> IdentifierNode(<<"b">>), body |-> At([kind |-> "Block", stmts |-> <<>>])]),
            At([kind |-> "FnDef", id |-> <<"a">>,
                params |-> <<[id |-> <<"a">>, type |-> At([kind |-> "Int"])],
                             [id |-> <<"b">>,
                              type |-> At([kind |-> "Array",
                                           element_type |-> At([kind |-> "Str"])])]>>,
                return_type |-> At([kind |-> "Bool"]),
                body |-> At([kind |-> "Block", stmts |-> <<>>])])}
      \cup {At([kind |-> "Block", stmts |-> <<s, At([kind |-> "Block", stmts |-> <<s>>])>>]) :
               s \in PlainStmts}
      \cup {At([kind |-> "Let", id |-> <<"a">>, var_type |-> At([kind |-> "Int"]), expr |-> x]) :
               x \in {None} \cup Operands}

\* a user of the parser crate that formats two different expressions, or two
\* different statements
InitRender ==
    /\ driver = "display"
    /\ source = <<>>
    /\ lexer = NewLexer(source)
    /\ tokens = <<>>
    /\ lexemes = <<>>
    /\ result = NoResult
    /\ texts = <<>>
    /\ \/ nodes \in {<<x, y>> : x \in RenderedExprs, y \in RenderedExprs}
       \/ nodes \in {<<x, y>> : x \in RenderedStmts, y \in RenderedStmts}
    /\ nodes[1] # nodes[2]
    /\ table = <<>>
    /\ reply = NoReply

\* format!("{}", node) or format!("{:#}", node) for each of the nodes
Render ==
    /\ driver = "display"
    /\ texts = <<>>
    /\ \E alternate \in BOOLEAN :
          /\ texts' = [i \in DOMAIN nodes |-> fmt_node(nodes[i], alternate)]
          /\ reply' = [op |-> "fmt", alternate |-> alternate]
    /\ UNCHANGED <<driver, source, lexer, tokens, lexemes, result, nodes, table>>

SpecRender == InitRender /\ [][Render]_vars

Init == InitMisc \/ InitParam \/ InitAdvance \/ InitRender \/ InitTable

Next == NextToken \/ Parse \/ Advance \/ Render \/ EnterScope \/ Add \/ Get \/ Exists

Spec == Init /\ [][Next]_vars

\* the lexer alone, on numbers, strings, chars and other characters
SpecNum == InitNum /\ [][NextToken]_vars
SpecStr == InitStr /\ [][NextToken]_vars
SpecChr == InitChr /\ [][NextToken]_vars
SpecMisc == InitMisc /\ [][NextToken]_vars

\* the lexer alone, on sources of several lines
SpecLayout == InitLayout /\ [][NextToken]_vars

\* the parser alone, on literals, on parameter lists and on statements
SpecLit == InitLit /\ [][Parse]_vars
SpecParam == InitParam /\ [][Parse]_vars
SpecStmt == InitStmt /\ [][Parse]_vars

\* the parser alone, on chains of binary operators
SpecBin == InitBin /\ [][Parse]_vars

\* the parser alone, on prefix operators
SpecUnary == InitUnary /\ [][Parse]_vars

\* the parser alone, on broken function headers
SpecHeader == InitHeader /\ [][Parse]_vars

\* the parser alone, on sequences of functions
SpecProg == InitProg /\ [][Parse]_vars

\* the parser alone, on integer literals with a base prefix
SpecRadix == InitRadix /\ [][Parse]_vars

\* the calls of Parser::next() alone
SpecAdvance == InitAdvance /\ [][Advance]_vars


(***************************************************************************)
(* Claims about the tokenizer.                                             *)
(***************************************************************************)
\* s is a non-empty sequence of decimal digits
IsDigits(s) == s # <<>> /\ \A i \in DOMAIN s : s[i] \in Range(DigitSeq)

\* s is D1 . D2 for non-empty digit sequences D1 and D2
IsPointFloat(s) ==
    \E i \in DOMAIN s :
        s[i] = "." /\ IsDigits(SubSeq(s, 1, i - 1)) /\ IsDigits(SubSeq(s, i + 1, Len(s)))

\* C1: the source D1.D2 (D1, D2 non-empty digit sequences, D1 = 0 included) is
\* tokenized as one LiteralFloat whose payload is the whole text, and the
\* next token is EOF.
C1_PointFloatIsOneToken ==
    IsPointFloat(source) =>
        /\ Len(tokens) >= 1 =>
              tokens[1].token_type = "LiteralFloat" /\ tokens[1].payload = source
        /\ Len(tokens) >= 2 => tokens[2].token_type = "EOF"

\* C2: every token other than EOF has a non-empty lexeme, and the payload of
\* an Invalid token is the offending text.
C2_NonEmptyLexeme ==
    \A i \in DOMAIN tokens :
        tokens[i].token_type # "EOF" =>
            /\ lexemes[i] # <<>>
            /\ tokens[i].token_type = "Invalid" => tokens[i].payload = lexemes[i]

\* the number of consecutive backslashes of s that end at index i
RECURSIVE BackslashesUpTo(_, _)
BackslashesUpTo(s, i) ==
    IF i >= 1 /\ s[i] = BSL THEN 1 + BackslashesUpTo(s, i - 1) ELSE 0

\* the `"` at index i of s is escaped: an odd number of backslashes precedes it
EscapedQuote(s, i) == BackslashesUpTo(s, i - 1) % 2 = 1

\* the indexes after the first of the `"` of s that are not escaped
ClosingQuotes(s) == {i \in 2..Len(s) : s[i] = DQ /\ ~EscapedQuote(s, i)}

Min(S) == CHOOSE x \in S : \A y \in S : x <= y

\* C3: a string literal ends at the first `"` that is not escaped, a `"`
\* being escaped exactly when an odd number of backslashes precedes it; the
\* text after it is tokenized separately.
C3_StringEndsAtUnescapedQuote ==
    (source # <<>> /\ Head(source) = DQ /\ ClosingQuotes(source) # {} /\ Len(tokens) >= 1) =>
        /\ tokens[1].token_type = "LiteralStr"
        /\ tokens[1].payload = SubSeq(source, 1, Min(ClosingQuotes(source)))
        /\ lexemes[1] = tokens[1].payload

\* the length of the body of the character literal that opens s: a
\* backslash and one escape character, or one other character
CharBodyLen(s) ==
    IF Len(s) >= 3 /\ s[2] = BSL THEN 2
    ELSE IF Len(s) >= 2 /\ s[2] \notin {BSL, SQ} THEN 1
    ELSE 0

\* C4: when the body of a character literal is not followed by a closing
\* `'`, the token is Invalid and never LiteralChar.
C4_UnclosedCharIsInvalid ==
    (/\ source # <<>> /\ Head(source) = SQ
     /\ CharBodyLen(source) > 0
     /\ (Len(source) < CharBodyLen(source) + 2 \/ source[CharBodyLen(source) + 2] # SQ)
     /\ Len(tokens) >= 1) =>
        tokens[1].token_type = "Invalid"

\* s is D1 m D2 or D1 m sign D2 for non-empty digit sequences D1, D2 and an
\* exponent marker m (e or E)
IsExponentFloat(s) ==
    \E i \in DOMAIN s :
        /\ s[i] \in {"e", "E"}
        /\ IsDigits(SubSeq(s, 1, i - 1))
        /\ \/ IsDigits(SubSeq(s, i + 1, Len(s)))
           \/ i < Len(s) /\ s[i + 1] \in {"+", "-"} /\ IsDigits(SubSeq(s, i + 2, Len(s)))

\* C5: a digit sequence followed by an exponent marker, lower-case or
\* upper-case, with an optional sign, is one LiteralFloat of the whole text.
C5_ExponentFloatIsOneToken ==
    (IsExponentFloat(source) /\ Len(tokens) >= 1) =>
        tokens[1].token_type = "LiteralFloat" /\ tokens[1].payload = source


(***************************************************************************)
(* Claims about literal resolution.                                        *)
(***************************************************************************)
\* the tokens Lexer::next() returns from L up to EOF or an Invalid token
RECURSIVE AllTokens(_)
AllTokens(L) ==
    LET r == LexerNext(L) IN
    IF r.tok.token_type \in {"EOF", "Invalid"} THEN <<r.tok>>
    ELSE <<r.tok>> \o AllTokens(r.lx)

SourceTokens == AllTokens(NewLexer(source))

TokenTypes(ts) == [i \in DOMAIN ts |-> ts[i].token_type]

\* the program is `fn f()`, one literal of the type tt and `;`
IsLiteralProgram(tt) ==
    TokenTypes(SourceTokens) = <<"KwFn", "Iden", "LPar", "RPar", tt, "Semicolon", "EOF">>

\* the payload of that literal, and the payload less one opening and one
\* closing quote
LiteralPayload == SourceTokens[5].payload
LiteralBody == SubSeq(LiteralPayload, 2, Len(LiteralPayload) - 1)

\* the expression the parser built for the literal
ParsedLiteral == result.program[1].body.expr

ParsedAs(kind, value) ==
    /\ result.status = "ok"
    /\ ParsedLiteral.kind = kind
    /\ ParsedLiteral.value = value

\* the body of a character literal: one character that is no quote and no
\* backslash, or a backslash and an escape character of the fixed set
IsCharBody(b) ==
    \/ Len(b) = 1 /\ b[1] \notin {SQ, BSL}
    \/ Len(b) = 2 /\ b[1] = BSL /\ EscapeChar(b[2]) # None

\* C6: resolution strips exactly one opening and one closing quote, so that
\* an escaped quote next to a delimiter is resolved: the value of a string is
\* its body less one quote on each side with the escapes replaced, the value
\* of a char is the character of that body.
C6_OneQuoteStripped ==
    result # NoResult =>
        /\ IsLiteralProgram("LiteralStr") => ParsedAs("LiteralStr", Unescape(LiteralBody))
        /\ (IsLiteralProgram("LiteralChar") /\ IsCharBody(LiteralBody)) =>
              ParsedAs("LiteralChar", CharOf(LiteralBody).value)

\* the escape sequences of a body, read from left to right: a backslash and
\* the character after it form one sequence
RECURSIVE Decode(_)
Decode(b) ==
    IF b = <<>> THEN <<>>
    ELSE IF Head(b) = BSL /\ Len(b) >= 2
         THEN (IF EscapeChar(b[2]) # None THEN <<EscapeChar(b[2]).value>> ELSE <<BSL, b[2]>>)
              \o Decode(SubSeq(b, 3, Len(b)))
         ELSE <<Head(b)>> \o Decode(Tail(b))

\* some escape sequence of the body is outside the fixed set
RECURSIVE HasBadEscape(_)
HasBadEscape(b) ==
    IF Len(b) < 2 THEN FALSE
    ELSE IF Head(b) = BSL
         THEN EscapeChar(b[2]) = None \/ HasBadEscape(SubSeq(b, 3, Len(b)))
         ELSE HasBadEscape(Tail(b))

\* C7: string resolution maps each escape sequence of the body independently,
\* from left to right (backslash, backslash, n is a backslash and an n).
C7_EscapesLeftToRight ==
    (/\ result # NoResult
     /\ IsLiteralProgram("LiteralStr")
     /\ trim_matches(LiteralPayload, DQ) = LiteralBody
     /\ ~HasBadEscape(LiteralBody)) =>
        ParsedAs("LiteralStr", Decode(LiteralBody))

\* C8: a string or char literal with an escape outside the fixed set, or a
\* char literal of more than one character after resolution, aborts the parse
\* and produces no literal node.
C8_BadEscapeAborts ==
    result # NoResult =>
        /\ (IsLiteralProgram("LiteralStr") /\ HasBadEscape(LiteralBody)) =>
              result.status = "panic"
        /\ (/\ IsLiteralProgram("LiteralChar")
            /\ (HasBadEscape(LiteralBody) \/ Len(Decode(LiteralBody)) > 1)) =>
              result.status = "panic"


(***************************************************************************)
(* Claims about the grammar.                                               *)
(***************************************************************************)
Pos(x) == <<x.line, x.column>>

RECURSIVE StmtNodes(_), StmtNodesOf(_), ExprNodes(_), ExprNodesOf(_),
          StmtExprNodes(_), StmtExprNodesOf(_), StmtTypeNodes(_), StmtTypeNodesOf(_)

\* the statements of the tree of s, in the order of the source
StmtNodes(s) ==
    <<s>> \o
    CASE s.kind = "If" ->
            StmtNodes(s.then_stmt) \o
            (IF s.else_stmt = None THEN <<>> ELSE StmtNodes(s.else_stmt))
      [] s.kind \in {"While", "For", "FnDef"} -> StmtNodes(s.body)
      [] s.kind = "Block" -> StmtNodesOf(s.stmts)
      [] OTHER -> <<>>

StmtNodesOf(ss) == IF ss = <<>> THEN <<>> ELSE StmtNodes(Head(ss)) \o StmtNodesOf(Tail(ss))

\* the primary expressions of the tree of e that carry a position and start
\* with an identifier or a literal, in the order of the source
ExprNodes(e) ==
    CASE e.kind = "BinaryOp" -> ExprNodes(e.l) \o ExprNodes(e.r)
      [] e.kind = "UnaryOp" -> ExprNodes(e.expr)
      [] e.kind = "LiteralArray" -> ExprNodesOf(e.elements)
      [] e.kind = "Call" -> <<e>> \o ExprNodesOf(e.args)
      [] e.kind = "ArrayExpr" -> <<e>> \o ExprNodes(e.index)
      [] e.kind = "Assign" -> <<e>> \o ExprNodes(e.expr)
      [] OTHER -> <<e>>

ExprNodesOf(es) == IF es = <<>> THEN <<>> ELSE ExprNodes(Head(es)) \o ExprNodesOf(Tail(es))

\* the primary expressions of the statements of the tree of s
StmtExprNodes(s) ==
    CASE s.kind = "Let" -> IF s.expr = None THEN <<>> ELSE ExprNodes(s.expr)
      [] s.kind \in {"Expr", "Return"} -> ExprNodes(s.expr)
      [] s.kind = "If" ->
            ExprNodes(s.cond) \o StmtExprNodes(s.then_stmt) \o
            (IF s.else_stmt = None THEN <<>> ELSE StmtExprNodes(s.else_stmt))
      [] s.kind = "While" -> ExprNodes(s.cond) \o StmtExprNodes(s.body)
      [] s.kind = "For" -> ExprNodes(s.start) \o ExprNodes(s.end) \o StmtExprNodes(s.body)
      [] s.kind = "Block" -> StmtExprNodesOf(s.stmts)
      [] s.kind = "FnDef" -> StmtExprNodes(s.body)
      [] OTHER -> <<>>

StmtExprNodesOf(ss) ==
    IF ss = <<>> THEN <<>> ELSE StmtExprNodes(Head(ss)) \o StmtExprNodesOf(Tail(ss))

\* the types of the statements of the tree of s
StmtTypeNodes(s) ==
    CASE s.kind = "Let" -> <<s.var_type>>
      [] s.kind = "If" ->
            StmtTypeNodes(s.then_stmt) \o
            (IF s.else_stmt = None THEN <<>> ELSE StmtTypeNodes(s.else_stmt))
      [] s.kind \in {"While", "For"} -> StmtTypeNodes(s.body)
      [] s.kind = "Block" -> StmtTypeNodesOf(s.stmts)
      [] s.kind = "FnDef" ->
            [i \in DOMAIN s.params |-> s.params[i].type] \o
            (IF s.return_type = None THEN <<>> ELSE <<s.return_type>>) \o
            StmtTypeNodes(s.body)
      [] OTHER -> <<>>

StmtTypeNodesOf(ss) ==
    IF ss = <<>> THEN <<>> ELSE StmtTypeNodes(Head(ss)) \o StmtTypeNodesOf(Tail(ss))

Positions(ns) == [i \in DOMAIN ns |-> Pos(ns[i])]

\* the positions of the statements of the kind k of the program
StmtPositions(k) ==
    LET Test(n) == n.kind = k
    IN  Positions(SelectSeq(StmtNodesOf(result.program), Test))

\* the positions of the tokens of the source whose type is in tts
TokenPositions(tts) ==
    LET Test(t) == t.token_type \in tts
    IN  Positions(SelectSeq(SourceTokens, Test))

\* the positions of the tokens that start a primary expression: a literal,
\* or an identifier that is no declared name
PrimaryTokenPositions ==
    LET ts == SourceTokens
        Starts(i) ==
            \/ ts[i].token_type \in {"LiteralIntDec", "LiteralIntBin", "LiteralIntOct",
                                     "LiteralIntHex", "LiteralFloat", "LiteralChar",
                                     "LiteralStr", "KwTrue", "KwFalse"}
            \/ /\ ts[i].token_type = "Iden"
               /\ ts[i - 1].token_type \notin {"KwFn", "KwLet", "KwFor"}
               /\ ts[i + 1].token_type # "Colon"
        RECURSIVE From(_)
        From(i) ==
            IF i > Len(ts) THEN <<>>
            ELSE (IF Starts(i) THEN <<Pos(ts[i])>> ELSE <<>>) \o From(i + 1)
    IN  From(1)

\* the node kinds of the statements that start with a keyword or a brace
FirstToken ==
    {<<"FnDef", "KwFn">>, <<"Let", "KwLet">>, <<"If", "KwIf">>, <<"While", "KwWhile">>,
     <<"For", "KwFor">>, <<"Return", "KwReturn">>, <<"Block", "LBrace">>}

\* C9: every node that carries a position is tagged with the position of the
\* first token of its production: FnDef with `fn`, Let with `let`, If with
\* `if`, While with `while`, For with `for`, Return with `return`, Block with
\* `{`, Empty with the `;` itself, primary expressions and types with their
\* first token.
C9_NodeAtFirstToken ==
    result.status = "ok" =>
        /\ \A ft \in FirstToken : StmtPositions(ft[1]) = TokenPositions({ft[2]})
        /\ \A i \in DOMAIN StmtPositions("Empty") :
              \E j \in DOMAIN TokenPositions({"Semicolon"}) :
                  StmtPositions("Empty")[i] = TokenPositions({"Semicolon"})[j]
        /\ Positions(StmtExprNodesOf(result.program)) = PrimaryTokenPositions
        /\ Positions(StmtTypeNodesOf(result.program)) =
              TokenPositions({"KwInt", "KwFloat", "KwChar", "KwStr", "KwBool"})

\* the token types of a parameter list up to its `)`:
\* [ Iden Colon type { Comma Iden Colon type } ]
RECURSIVE IsTypedIdents(_)
IsTypedIdents(tts) ==
    /\ Len(tts) >= 3
    /\ tts[1] = "Iden" /\ tts[2] = "Colon"
    /\ tts[3] \in {"KwInt", "KwFloat", "KwChar", "KwStr", "KwBool"}
    /\ \/ Len(tts) = 3
       \/ tts[4] = "Comma" /\ IsTypedIdents(SubSeq(tts, 5, Len(tts)))

\* the token types between the first `(` and the first `)` of the source
ParamTokenTypes ==
    LET tts == TokenTypes(SourceTokens)
        open == Min({i \in DOMAIN tts : tts[i] = "LPar"})
        close == Min({i \in DOMAIN tts : tts[i] = "RPar"})
    IN  SubSeq(tts, open + 1, close - 1)

\* C10: a parameter list is accepted only when it is empty or typed
\* identifiers in which every comma is followed by another typed identifier;
\* a trailing comma aborts with a syntax error.
C10_NoTrailingComma ==
    result.status = "ok" => (ParamTokenTypes = <<>> \/ IsTypedIdents(ParamTokenTypes))

(***************************************************************************)
(* Claims about expressions.                                               *)
(***************************************************************************)
\* the precedence level of a binary operator token, 1 the loosest:
\* or < and < (==,!=) < (<,>,<=,>=) < | < & < (+,-) < (*,/,%)
OpLevel(tt) ==
    CASE tt = "KwOr" -> 1
      [] tt = "KwAnd" -> 2
      [] tt \in {"Eq", "NEq"} -> 3
      [] tt \in {"LT", "GT", "LEq", "GEq"} -> 4
      [] tt = "Pipe" -> 5
      [] tt = "Amp" -> 6
      [] tt \in {"Plus", "Minus"} -> 7
      [] tt \in {"Asterisk", "Slash", "Percent"} -> 8
      [] OTHER -> 0

\* the ast::BinOp of a binary operator token
BinOpOf(tt) ==
    CASE tt = "KwOr" -> "LogOr" [] tt = "KwAnd" -> "LogAnd"
      [] tt = "Pipe" -> "BitOr" [] tt = "Amp" -> "BitAnd"
      [] tt = "Plus" -> "Add" [] tt = "Minus" -> "Sub"
      [] tt = "Asterisk" -> "Mul" [] tt = "Slash" -> "Div"
      [] tt = "Percent" -> "Mod"
      [] OTHER -> tt

\* the program is `fn f()`, the chain `a op1 b op2 c` and `;`
IsChainOfTwo ==
    /\ Len(SourceTokens) = 11
    /\ OpLevel(SourceTokens[6].token_type) > 0
    /\ OpLevel(SourceTokens[8].token_type) > 0
    /\ TokenTypes(SourceTokens) =
           <<"KwFn", "Iden", "LPar", "RPar", "Iden", SourceTokens[6].token_type,
             "Iden", SourceTokens[8].token_type, "Iden", "Semicolon", "EOF">>

Op1 == SourceTokens[6].token_type
Op2 == SourceTokens[8].token_type

\* an expression less its positions: an identifier is its name, a binary
\* operation is <<left, operator, right>>, a unary one is <<operator, operand>>
RECURSIVE Shape(_)
Shape(e) ==
    CASE e.kind = "BinaryOp" -> <<Shape(e.l), e.op.kind, Shape(e.r)>>
      [] e.kind = "UnaryOp" -> <<e.op.kind, Shape(e.expr)>>
      [] e.kind = "Identifier" -> e.id
      [] e.kind = "Assign" -> <<e.id, "=", Shape(e.expr)>>
      [] OTHER -> e.kind

\* the expression of the statement that is the body of the first function
ParsedExpr == result.program[1].body.expr

GroupedLeft ==
    /\ result.status = "ok"
    /\ Shape(ParsedExpr) = <<<< <<"a">>, BinOpOf(Op1), <<"b">> >>, BinOpOf(Op2), <<"c">> >>

GroupedRight ==
    /\ result.status = "ok"
    /\ Shape(ParsedExpr) = << <<"a">>, BinOpOf(Op1), << <<"b">>, BinOpOf(Op2), <<"c">> >> >>

\* C11: a chain `a op1 b op2 c` whose two operators belong to the same
\* precedence level parses as BinaryOp(BinaryOp(a, op1, b), op2, c)
C11_LeftAssociative ==
    (driver = "parser" /\ result # NoResult /\ IsChainOfTwo
        /\ OpLevel(Op1) = OpLevel(Op2))
    => GroupedLeft

\* `a - b - c` was parsed as (a - b) - c
C11_Witness ==
    /\ driver = "parser" /\ result # NoResult /\ IsChainOfTwo
    /\ Op1 = "Minus" /\ Op2 = "Minus"
    /\ GroupedLeft

\* C12: when op2 belongs to a tighter level than op1, `a op1 b op2 c`
\* parses as a op1 (b op2 c); when op1 belongs to a tighter level than op2,
\* it parses as (a op1 b) op2 c
C12_Precedence ==
    (driver = "parser" /\ result # NoResult /\ IsChainOfTwo)
    => /\ OpLevel(Op1) < OpLevel(Op2) => GroupedRight
       /\ OpLevel(Op1) > OpLevel(Op2) => GroupedLeft

\* `a + b * c` was parsed as a + (b * c)
C12_Witness ==
    /\ driver = "parser" /\ result # NoResult /\ IsChainOfTwo
    /\ Op1 = "Plus" /\ Op2 = "Asterisk"
    /\ GroupedRight

IsPrefixOp(tt) == tt \in {"Plus", "Minus", "KwNot", "Tilde"}

\* the number of prefix operator tokens in a row from the token i on
RECURSIVE PrefixCount(_)
PrefixCount(i) ==
    IF i <= Len(SourceTokens) /\ IsPrefixOp(SourceTokens[i].token_type)
    THEN 1 + PrefixCount(i + 1) ELSE 0

\* the program is `fn f()`, n prefix operators, the operand a, possibly a
\* binary operator and the operand b, and `;`
IsPrefixedOperand(n) ==
    /\ n = PrefixCount(5)
    /\ \/ TokenTypes(SubSeq(SourceTokens, 5 + n, Len(SourceTokens))) =
              <<"Iden", "Semicolon", "EOF">>
       \/ /\ Len(SourceTokens) = 9 + n
          /\ OpLevel(SourceTokens[6 + n].token_type) > 0
          /\ TokenTypes(SubSeq(SourceTokens, 5 + n, Len(SourceTokens))) =
                 <<"Iden", SourceTokens[6 + n].token_type, "Iden", "Semicolon", "EOF">>
    /\ TokenTypes(SubSeq(SourceTokens, 1, 4)) = <<"KwFn", "Iden", "LPar", "RPar">>

\* the ast::UnOp of a prefix operator token
UnOpOf(tt) ==
    CASE tt = "Minus" -> "Neg" [] tt = "KwNot" -> "LogNot" [] OTHER -> "BitNot"

\* the shape x of the left operand with the binary operation that follows
\* the operand a in the source, if any
WithTail(x, n) ==
    IF SourceTokens[6 + n].token_type = "Semicolon" THEN x
    ELSE <<x, BinOpOf(SourceTokens[6 + n].token_type), <<"b">> >>

\* C13: unary_expr consumes at most one prefix operator and then exactly
\* one primary operand: without a prefix the operand is a itself, after a
\* prefix `+` it is a with no UnaryOp node, after `-`, `not` or `~` it is
\* UnaryOp(op, a), and a binary operator that follows applies to that
\* operand (`- a * b` is (-a) * b); two prefix operators in a row abort with
\* the syntax error "Expected expression" at the second one
C13_OnePrefixOnePrimary ==
    (driver = "parser" /\ result # NoResult)
    => /\ IsPrefixedOperand(0)
            => result.status = "ok" /\ Shape(ParsedExpr) = WithTail(<<"a">>, 0)
       /\ IsPrefixedOperand(1)
            => /\ result.status = "ok"
               /\ Shape(ParsedExpr) =
                      WithTail(IF SourceTokens[5].token_type = "Plus" THEN <<"a">>
                               ELSE <<UnOpOf(SourceTokens[5].token_type), <<"a">> >>, 1)
       /\ \A n \in 2..Len(SourceTokens) :
             IsPrefixedOperand(n)
             => /\ result.status = "panic"
                /\ result.err = [line |-> SourceTokens[6].line,
                                 column |-> SourceTokens[6].column,
                                 msg |-> <<"Expected expression">>]

\* `- a * b` was parsed as (-a) * b
C13_Witness ==
    /\ driver = "parser" /\ result # NoResult /\ IsPrefixedOperand(1)
    /\ TokenTypes(SubSeq(SourceTokens, 5, 8)) = <<"Minus", "Iden", "Asterisk", "Iden">>
    /\ result.status = "ok"
    /\ Shape(ParsedExpr) = << <<"Neg", <<"a">> >>, "Mul", <<"b">> >>

(***************************************************************************)
(* Claims about the parser's current token and its errors.                 *)
(***************************************************************************)
IsComment(t) == t.token_type \in {"LC", "BC"}
NotComment(t) == ~IsComment(t)

\* the tokens of the source less its comments, up to EOF or the first
\* Invalid token
Significant == SelectSeq(SourceTokens, NotComment)

\* C14: after the first advance the current token of a parser that has not
\* aborted is never a comment or an Invalid token; the tokens Parser::next
\* leaves in current are, in order, the tokens of the lexer less the
\* comments, and the parse is aborted exactly when the first Invalid token
\* has been pulled, with the diagnostic at that token
C14_CurrentIsSignificant ==
    (driver = "next" /\ tokens # <<>>)
    => /\ result.current = tokens[Len(tokens)]
       /\ result.status = "ok"
            => result.current.token_type \notin {"LC", "BC", "Invalid"}
       /\ \A i \in DOMAIN tokens :
             IF i <= Len(Significant) THEN tokens[i] = Significant[i]
             ELSE tokens[i].token_type = "EOF"
       /\ result.status = "panic" <=> result.current.token_type = "Invalid"
       /\ result.status = "panic"
            => /\ Len(tokens) = Len(Significant)
               /\ result.err = [line |-> result.current.line,
                                column |-> result.current.column,
                                msg |-> <<"Invalid token">>]

\* a comment was skipped, a token was held, and the Invalid token pulled
\* next aborted the parse
C14_Witness ==
    /\ driver = "next"
    /\ Len(tokens) >= 2
    /\ result.pulled > Len(tokens)
    /\ tokens[1].token_type = "Iden"
    /\ result.status = "panic"

NoExprStart == {"RPar", "Colon", "KwInt", "RBrace", "KwFn", "EOF"}

StmtStart(tt, inBlock) ==
    CASE tt = "LBrace" /\ ~inBlock -> "block"
      [] tt = "RBrace" /\ inBlock -> "top"
      [] tt \in NoExprStart -> "bad"
      [] OTHER -> "any"

GrammarStep(q, tt) ==
    CASE q = "top" -> (CASE tt = "KwFn" -> "fn" [] tt = "EOF" -> "any" [] OTHER -> "bad")
      [] q = "fn" -> IF tt = "Iden" THEN "name" ELSE "bad"
      [] q = "name" -> IF tt = "LPar" THEN "params" ELSE "bad"
      [] q = "params" ->
            (CASE tt = "RPar" -> "closed" [] tt = "Iden" -> "param" [] OTHER -> "bad")
      [] q = "param" -> IF tt = "Colon" THEN "ptype" ELSE "bad"
      [] q = "ptype" -> IF tt = "KwInt" THEN "ptyped" ELSE "bad"
      [] q = "ptyped" ->
            (CASE tt = "RPar" -> "closed" [] tt \in {"Comma", "LBracket"} -> "any"
               [] OTHER -> "bad")
      [] q = "closed" -> IF tt = "Colon" THEN "rtype" ELSE StmtStart(tt, FALSE)
      [] q = "rtype" -> IF tt = "KwInt" THEN "rtyped" ELSE "bad"
      [] q = "rtyped" -> IF tt = "LBracket" THEN "any" ELSE StmtStart(tt, FALSE)
      [] q = "block" -> StmtStart(tt, TRUE)
      [] OTHER -> "any"

\* the index of the first of the token types tts that the grammar does not
\* allow, from the index i on in the state q; 0 when there is none in the
\* part of the grammar above
RECURSIVE FirstBad(_, _, _)
FirstBad(tts, i, q) ==
    IF i > Len(tts) THEN 0
    ELSE CASE GrammarStep(q, tts[i]) = "bad" -> i
           [] GrammarStep(q, tts[i]) = "any" -> 0
           [] OTHER -> FirstBad(tts, i + 1, GrammarStep(q, tts[i]))

Offending == FirstBad(TokenTypes(SourceTokens), 1, "top")

\* the parse was aborted at the token t, the k-th of the source, which is
\* still the current token
AbortedAt(t, k) ==
    /\ result.status = "panic"
    /\ result.err.line = t.line
    /\ result.err.column = t.column
    /\ result.current = t
    /\ result.pulled = k

\* C16: when the current token does not match what the grammar requires
\* (a failed expect, a missing identifier, type or expression, a top-level
\* token other than fn), the parse aborts with the diagnostic at the
\* position of that token, and that token is still the current one: the
\* failing step consumed no token
C16_DiagnosticAtOffendingToken ==
    (driver = "parser" /\ result # NoResult)
    => \A k \in {Offending} : k > 0 => AbortedAt(SourceTokens[k], k)

\* `fn f ( { }` was aborted at the `{`
C16_Witness ==
    /\ driver = "parser" /\ result # NoResult
    /\ TokenTypes(SourceTokens) = <<"KwFn", "Iden", "LPar", "LBrace", "RBrace", "EOF">>
    /\ Offending = 4
    /\ result.status = "panic"
    /\ result.err.line = 1 /\ result.err.column = 8
    /\ SourceTokens[4].column = 8

(***************************************************************************)
(* Claims about positions, end of stream and operators of the tokenizer.   *)
(***************************************************************************)
\* the index of the first character of the source from i on that is not
\* whitespace
RECURSIVE SkipBlanks(_)
SkipBlanks(i) ==
    IF i <= Len(source) /\ is_whitespace(source[i]) THEN SkipBlanks(i + 1) ELSE i

\* the index in the source of the first character of the i-th token: the
\* first character that is not whitespace after the lexeme of the token
\* before
RECURSIVE StartOf(_)
StartOf(i) ==
    IF i = 1 THEN SkipBlanks(1)
    ELSE SkipBlanks(StartOf(i - 1) + Len(lexemes[i - 1]))

Max(S) == CHOOSE x \in S : \A y \in S : x >= y

\* the 1-based line and column of the i-th character of the source: a
\* newline starts a line, whose first character has the column 1
LineOf(i) == 1 + Cardinality({j \in 1..(i - 1) : source[j] = NL})
ColumnOf(i) == i - Max({0} \cup {j \in 1..(i - 1) : source[j] = NL})

\* C17: every token but EOF carries the 1-based line and column of the
\* first character of its lexeme in the source
C17_PositionOfFirstCharacter ==
    driver = "lexer"
    => \A i \in DOMAIN tokens :
          tokens[i].token_type # "EOF"
          => \A k \in {StartOf(i)} :
                /\ k <= Len(source)
                /\ tokens[i].line = LineOf(k)
                /\ tokens[i].column = ColumnOf(k)

\* an identifier on the second line, after a token that began on the
\* first line and contains the newline
C17_Witness ==
    /\ driver = "lexer"
    /\ \E i \in DOMAIN tokens :
          /\ i > 1
          /\ tokens[i - 1].token_type \in {"LiteralStr", "BC"}
          /\ tokens[i - 1].line = 1
          /\ tokens[i].token_type = "Iden"
          /\ tokens[i].line = 2
          /\ tokens[i].column > 1

\* C18: once Lexer::next() has returned EOF, every later call returns EOF
\* again, with the same line and column
C18_EofIsReissued ==
    driver = "lexer"
    => \A i, j \in DOMAIN tokens :
          (i < j /\ tokens[i].token_type = "EOF")
          => /\ tokens[j].token_type = "EOF"
             /\ tokens[j].line = tokens[i].line
             /\ tokens[j].column = tokens[i].column

\* EOF was returned three times after a token on the second line
C18_Witness ==
    /\ driver = "lexer"
    /\ Len(tokens) >= 4
    /\ tokens[1].token_type = "Iden"
    /\ tokens[1].line = 2
    /\ \A i \in 2..4 : tokens[i].token_type = "EOF" /\ tokens[i].line = 2

\* the token of the two characters c and '=', and the token of c alone
WithEquals(c) ==
    CASE c = "<" -> "LEq" [] c = ">" -> "GEq" [] c = "=" -> "Eq" [] OTHER -> "NEq"
Alone(c) ==
    CASE c = "<" -> "LT" [] c = ">" -> "GT" [] c = "=" -> "Assign" [] OTHER -> "Invalid"

\* the i-th token, which begins at the k-th character of the source, is the
\* operator of the characters k and k + 1
IsTwoCharOperator(i, k) ==
    /\ tokens[i].token_type = WithEquals(source[k])
    /\ lexemes[i] = <<source[k], "=">>

\* the i-th token is the token of the k-th character alone, and the
\* character k + 1 is not consumed: the next token begins at the first
\* character from k + 1 on that is not whitespace
IsOneCharOperator(i, k) ==
    /\ tokens[i].token_type = Alone(source[k])
    /\ source[k] = "!" => tokens[i].payload = <<"!">>
    /\ lexemes[i] = <<source[k]>>
    /\ (i < Len(tokens) /\ SkipBlanks(k + 1) <= Len(source))
          => /\ tokens[i + 1].token_type # "EOF"
             /\ tokens[i + 1].line = LineOf(SkipBlanks(k + 1))
             /\ tokens[i + 1].column = ColumnOf(SkipBlanks(k + 1))

\* C19: a token that begins with `<`, `>`, `=` or `!` is LEq, GEq, Eq or
\* NEq with the following `=`; otherwise it is LT, GT, Assign or
\* Invalid("!") of the one character, and the character after it begins
\* the next token
C19_TwoCharOperators ==
    driver = "lexer"
    => \A i \in DOMAIN tokens :
          \A k \in {StartOf(i)} :
             (k <= Len(source) /\ source[k] \in {"<", ">", "=", "!"})
             => IF k < Len(source) /\ source[k + 1] = "="
                THEN IsTwoCharOperator(i, k)
                ELSE IsOneCharOperator(i, k)

\* `<` before a character that is not `=` was returned as LT, and that
\* character began the next token
C19_Witness ==
    /\ driver = "lexer"
    /\ Len(tokens) >= 2
    /\ Len(source) = 2
    /\ source[1] = "<"
    /\ tokens[1].token_type = "LT" /\ lexemes[1] = <<"<">>
    /\ tokens[2].token_type = "Iden" /\ tokens[2].column = 2

(***************************************************************************)
(* Claims about the program.                                               *)
(***************************************************************************)
\* the token types of a function `fn name(){}`
FunctionTokens == <<"KwFn", "Iden", "LPar", "RPar", "LBrace", "RBrace">>

\* the number of complete functions `fn name(){}` in a row at the head of
\* the token types tts from the index i on
RECURSIVE LeadingFunctions(_, _)
LeadingFunctions(tts, i) ==
    IF i + 5 <= Len(tts) /\ SubSeq(tts, i, i + 5) = FunctionTokens
    THEN 1 + LeadingFunctions(tts, i + 6) ELSE 0

\* the source less its comments is n functions `fn name(){}` then EOF
IsFunctionsThenEof(ts, n) ==
    /\ Len(ts) = 6 * n + 1
    /\ ts[Len(ts)].token_type = "EOF"

\* the names of the n functions at the head of the tokens ts
FunctionNames(ts, n) == [k \in 1..n |-> ts[6 * (k - 1) + 2].payload]

ProgramNames == [k \in DOMAIN result.program |-> result.program[k].id]

\* the parse of the tokens ts, n complete functions followed by the token t
ParsedProgram(ts, n, t) ==
    /\ result.status = "ok" <=> IsFunctionsThenEof(ts, n)
    /\ result.status = "ok"
         => /\ result.current.token_type = "EOF"
            /\ \A k \in DOMAIN result.program : result.program[k].kind = "FnDef"
            /\ ProgramNames = FunctionNames(ts, n)
    /\ t.token_type \notin {"KwFn", "EOF"}
         => /\ result.status = "panic"
            /\ result.err = [line |-> t.line, column |-> t.column,
                             msg |-> <<"Expected fn">>]

\* C20: parse() succeeds only if the tokens less the comments are complete
\* functions followed by EOF; a token other than fn or EOF where a
\* function may begin aborts the parse with a syntax error at that token;
\* the functions of the program are those of the source in their order;
\* at success the current token is EOF
C20_FunctionsThenEof ==
    (driver = "parser" /\ result # NoResult)
    => \A ts \in {Significant} :
          \A n \in {LeadingFunctions(TokenTypes(ts), 1)} :
             ParsedProgram(ts, n, ts[6 * n + 1])

\* the functions f and g, with comments around them, were parsed in this
\* order
C20_Witness ==
    /\ driver = "parser" /\ result # NoResult
    /\ result.status = "ok"
    /\ result.pulled = 14
    /\ result.current.token_type = "EOF"
    /\ ProgramNames = << <<"f">>, <<"g">> >>

(***************************************************************************)
(* Claims about integer literals with a base prefix.                       *)
(***************************************************************************)
\* the radix of a base prefix character
RadixOf(p) ==
    CASE p \in {"b", "B"} -> 2 [] p \in {"o", "O"} -> 8 [] OTHER -> 16

\* the value of a digit character
DigitOf(c) ==
    CASE c = "0" -> 0 [] c = "1" -> 1 [] c = "2" -> 2 [] c = "3" -> 3
      [] c = "4" -> 4 [] c = "5" -> 5 [] c = "6" -> 6 [] c = "7" -> 7
      [] c = "8" -> 8 [] c = "9" -> 9
      [] c \in {"a", "A"} -> 10 [] c \in {"b", "B"} -> 11 [] c \in {"c", "C"} -> 12
      [] c \in {"d", "D"} -> 13 [] c \in {"e", "E"} -> 14 [] c \in {"f", "F"} -> 15
      [] OTHER -> 99

\* the value of the digits ds in the radix: the sum of digit * radix^place
RECURSIVE PlaceValue(_, _)
PlaceValue(ds, radix) ==
    IF ds = <<>> THEN 0
    ELSE DigitOf(ds[1]) * radix ^ (Len(ds) - 1) + PlaceValue(Tail(ds), radix)

\* the source is `fn f()0`, the base prefix p, the digits ds of the radix
\* of p, and `;`
IsRadixProgram(p, ds) ==
    /\ source = FnHead \o <<"0", p>> \o ds \o <<";">>
    /\ p \in RadixPrefixes
    /\ \A i \in DOMAIN ds : DigitOf(ds[i]) < RadixOf(p)

RadixPrefix == source[8]
RadixDigits == SubSeq(source, 9, Len(source) - 1)

\* C21: an integer literal with the base prefix 0x, 0X, 0b, 0B, 0o or 0O
\* resolves to the value of the digits after the prefix in the radix of the
\* prefix; a prefix with no digit after it is a fatal error
C21_RadixValue ==
    (driver = "parser" /\ result # NoResult /\ Len(source) >= 9
        /\ IsRadixProgram(RadixPrefix, RadixDigits))
    => IF RadixDigits = <<>>
       THEN /\ result.status = "panic"
            /\ result.err = [line |-> 1, column |-> 7, msg |-> <<"Invalid integer">>]
       ELSE ParsedAs("LiteralInt", PlaceValue(RadixDigits, RadixOf(RadixPrefix)))

\* `0x1fA` was resolved to 506 (1 * 256 + 15 * 16 + 10)
C21_Witness ==
    /\ driver = "parser" /\ result # NoResult
    /\ source = FnHead \o <<"0", "x", "1", "f", "A", ";">>
    /\ ParsedAs("LiteralInt", 506)

\* the values of the literals named: `0x1fA` gives 507, `0B1001` gives 9,
\* `0o5` and `0O5` give 5, `0b1011` gives 11
NamedValue(text, value) ==
    source = FnHead \o text \o <<";">> => ParsedAs("LiteralInt", value)

\* C21 as stated: the value is that of the digits in the radix, a prefix
\* with no digit is fatal, and the literals named have the values named,
\* `0x1fA` having the value 507
C21_AsStated ==
    (driver = "parser" /\ result # NoResult)
    => /\ C21_RadixValue
       /\ NamedValue(<<"0", "x", "1", "f", "A">>, 507)
       /\ NamedValue(<<"0", "B", "1", "0", "0", "1">>, 9)
       /\ NamedValue(<<"0", "o", "5">>, 5)
       /\ NamedValue(<<"0", "O", "5">>, 5)
       /\ NamedValue(<<"0", "b", "1", "0", "1", "1">>, 11)

\* C23: for every punctuation or operator token kind and every keyword token
\* kind, the lexer turns the text Display gives the kind into one token of
\* that kind and then EOF, and the driver prints that token as the same text
\* (followed by the token's position, the first character of the source).
C23_CanonicalRoundTrip ==
    (driver = "lexer" /\ Len(tokens) >= 2)
    => \A tt \in PunctuationKinds \cup KeywordKinds :
           source = fmt_token_type(tt, <<>>)
           => /\ tokens[1].token_type = tt
              /\ tokens[2].token_type = "EOF"
              /\ fmt_token_type(tokens[1].token_type, tokens[1].payload) = source
              /\ texts[1] = source \o <<",", " ", "L", "n", ":", " ", "1",
                                        ",", " ", "C", "o", "l", ":", " ", "1">>

\* `<=` was tokenized as LEq and EOF and printed as `<=, Ln: 1, Col: 1`, and
\* `return` as KwReturn and EOF
C23_Witness ==
    /\ driver = "lexer" /\ Len(tokens) = 2
    /\ \/ /\ source = <<"<", "=">>
          /\ tokens[1].token_type = "LEq"
          /\ texts[1] = <<"<", "=", ",", " ", "L", "n", ":", " ", "1",
                          ",", " ", "C", "o", "l", ":", " ", "1">>
          /\ texts[2] = <<"E", "O", "F", ",", " ", "L", "n", ":", " ", "1",
                          ",", " ", "C", "o", "l", ":", " ", "3">>
       \/ /\ source = <<"r", "e", "t", "u", "r", "n">>
          /\ tokens[1].token_type = "KwReturn"
          /\ tokens[2].token_type = "EOF"

\* C26: the loop that calls Lexer::next() until EOF ends: every token other
\* than EOF takes at least one character of the source, so that among any
\* Len(source) + 1 tokens returned there is an EOF, and no two tokens that
\* follow each other and are not EOF begin at the same position.
C26_LoopReachesEof ==
    driver = "lexer"
    => /\ Len(tokens) > Len(source)
          => \E i \in DOMAIN tokens : tokens[i].token_type = "EOF"
       /\ \A i \in 2..Len(tokens) :
              tokens[i].token_type # "EOF"
              => <<tokens[i].line, tokens[i].column>>
                     # <<tokens[i - 1].line, tokens[i - 1].column>>

\* C27: when the parser aborts on a character literal with an invalid body
\* (the diagnostic "Invalid character"), the line and column of the
\* diagnostic are those of the character literal token, not those of the
\* token after it.
C27_InvalidCharAtLiteral ==
    (/\ driver = "parser" /\ result # NoResult
     /\ result.status = "panic"
     /\ result.err.msg = <<"Invalid character">>)
    => \E i \in DOMAIN SourceTokens :
           /\ SourceTokens[i].token_type = "LiteralChar"
           /\ result.err.line = SourceTokens[i].line
           /\ result.err.column = SourceTokens[i].column

\* C28: Lexer::next() returns EOF only when the source is exhausted, also
\* for a source that holds a zero byte before its end: in the sequence of
\* tokens returned, an EOF token is never followed by a token that is not
\* EOF.
C28_EofIsFinal ==
    driver = "lexer"
    => \A i \in 1..(Len(tokens) - 1) :
           tokens[i].token_type = "EOF" => tokens[i + 1].token_type = "EOF"

\* the UnaryOp nodes of an expression
RECURSIVE UnaryNodes(_)
UnaryNodes(e) ==
    CASE e.kind = "BinaryOp" -> UnaryNodes(e.l) \o UnaryNodes(e.r)
      [] e.kind = "UnaryOp" -> <<e>> \o UnaryNodes(e.expr)
      [] e.kind = "Assign" -> UnaryNodes(e.expr)
      [] OTHER -> <<>>

\* the tokens toks are those of a function whose body is a chain of
\* identifiers, some negated, joined by `=`, `*`, `+` and `<`
IsAssignChain(toks) ==
    LET tts == TokenTypes(toks)
        n == Len(toks)
    IN  /\ n >= 7
        /\ SubSeq(tts, 1, 4) = <<"KwFn", "Iden", "LPar", "RPar">>
        /\ SubSeq(tts, n - 1, n) = <<"Semicolon", "EOF">>
        /\ tts[n - 2] = "Iden"
        /\ \A j \in 5..(n - 3) :
               CASE tts[j] = "Minus" -> tts[j + 1] = "Iden"
                 [] tts[j] = "Iden" -> tts[j + 1] \in {"Assign", "Asterisk", "Plus", "LT"}
                 [] tts[j] \in {"Assign", "Asterisk", "Plus", "LT"} ->
                        tts[j + 1] \in {"Iden", "Minus"}
                 [] OTHER -> FALSE

\* the token j of toks is an `=`, and the node n is the assignment to the
\* identifier before it, whose value holds every identifier after it
IsAssignmentAt(n, j, toks) ==
    /\ n.kind = "Assign"
    /\ n.id = toks[j - 1].payload
    /\ Pos(n) = Pos(toks[j - 1])
    /\ {Pos(m) : m \in Range(ExprNodes(n.expr))}
           = {Pos(toks[k]) : k \in {i \in (j + 1)..Len(toks) : toks[i].token_type = "Iden"}}

\* the token j of toks is a `-`, and the node u is the negation of the
\* identifier after it, or of the assignment to that identifier
IsNegationAt(u, j, toks) ==
    /\ u.op.kind = "Neg"
    /\ Pos(u.op) = Pos(toks[j])
    /\ Pos(u.expr) = Pos(toks[j + 1])
    /\ u.expr.kind = IF toks[j + 2].token_type = "Assign" THEN "Assign" ELSE "Identifier"

\* the expression e is the parse of the chain toks with every assignment
\* taking the rest of the chain as its value
IsParseOfAssignChain(e, toks) ==
    LET ns == Range(ExprNodes(e))
        us == Range(UnaryNodes(e))
    IN  /\ \A j \in DOMAIN toks :
               toks[j].token_type = "Assign" => \E n \in ns : IsAssignmentAt(n, j, toks)
        /\ \A n \in ns :
               \E j \in 5..Len(toks) :
                  /\ toks[j].token_type = "Iden"
                  /\ Pos(n) = Pos(toks[j])
                  /\ n.kind = IF toks[j + 1].token_type = "Assign"
                              THEN "Assign" ELSE "Identifier"
        /\ \A j \in DOMAIN toks :
               toks[j].token_type = "Minus" => \E u \in us : IsNegationAt(u, j, toks)

BodyIs(text) == source = FnHead \o text \o <<";">>

\* C30: in a chain of identifiers joined by `=` and binary operators, every
\* identifier followed by `=` is an assignment whose value extends to the end
\* of the chain, every other identifier is a bare reference, and a `-` before
\* an assigned identifier negates the whole assignment; `a = b = c` is
\* a = (b = c), `a * b = c + d` is a * (b = (c + d)), `- a = b` is -(a = b).
C30_AssignTakesFullExpression ==
    (driver = "parser" /\ result # NoResult)
    => \A toks \in {SourceTokens} :
          IsAssignChain(toks)
          => /\ result.status = "ok"
             /\ Len(result.program) = 1
             /\ IsParseOfAssignChain(ParsedExpr, toks)
             /\ BodyIs(<<"a", " ", "=", " ", "b", " ", "=", " ", "c">>)
                   => Shape(ParsedExpr) = <<<<"a">>, "=", <<<<"b">>, "=", <<"c">> >> >>
             /\ BodyIs(<<"a", " ", "*", " ", "b", " ", "=", " ", "c", " ", "+", " ", "d">>)
                   => Shape(ParsedExpr)
                          = <<<<"a">>, "Mul", <<<<"b">>, "=", <<<<"c">>, "Add", <<"d">> >> >> >>
             /\ BodyIs(<<"-", " ", "a", " ", "=", " ", "b">>)
                   => Shape(ParsedExpr) = <<"Neg", <<<<"a">>, "=", <<"b">> >> >>

\* `a * b = c + d` was parsed as a * (b = (c + d)), or `- a = b` as -(a = b)
C30_Witness ==
    /\ driver = "parser" /\ result # NoResult /\ result.status = "ok"
    /\ \/ /\ BodyIs(<<"a", " ", "*", " ", "b", " ", "=", " ", "c", " ", "+", " ", "d">>)
          /\ ParsedExpr.kind = "BinaryOp"
          /\ ParsedExpr.r.kind = "Assign"
          /\ ParsedExpr.r.expr.kind = "BinaryOp"
       \/ /\ BodyIs(<<"-", " ", "a", " ", "=", " ", "b">>)
          /\ ParsedExpr.kind = "UnaryOp"
          /\ ParsedExpr.expr.kind = "Assign"

\* the brackets, parentheses and braces opened less those closed in toks
RECURSIVE OpenDepth(_)
OpenDepth(toks) ==
    IF toks = <<>> THEN 0
    ELSE OpenDepth(Tail(toks))
           + (CASE Head(toks).token_type \in {"LPar", "LBracket", "LBrace"} -> 1
                [] Head(toks).token_type \in {"RPar", "RBracket", "RBrace"} -> -1
                [] OTHER -> 0)

\* C29: parse() terminates, with a program or with a fatal error, for every
\* source, every step having taken a token or aborted: it has returned
\* without pulling a token after the first EOF of the source; a parse that
\* succeeded has pulled every token once and stands at EOF; a source that
\* ends inside an unclosed block, parameter list, argument list or
\* parenthesis was a fatal error at the last token pulled.
C29_ParseTerminates ==
    (driver = "parser" /\ result # NoResult)
    => \A toks \in {SourceTokens} :
          /\ result.status \in {"ok", "panic"}
          /\ result.pulled <= Len(toks)
          /\ result.status = "ok"
                => /\ result.pulled = Len(toks)
                   /\ result.current = toks[Len(toks)]
                   /\ result.current.token_type = "EOF"
                   /\ OpenDepth(toks) = 0
          /\ OpenDepth(toks) > 0
                => /\ result.status = "panic"
                   /\ result.program = <<>>
                   /\ result.pulled >= 1
                   /\ Pos(result.err) = Pos(toks[result.pulled])

\* a source that ends inside a block inside a block was a fatal error at the
\* EOF token, the last of its tokens
C29_Witness ==
    /\ driver = "parser" /\ result # NoResult
    /\ result.status = "panic"
    /\ OpenDepth(SourceTokens) >= 2
    /\ SourceTokens[Len(SourceTokens)].token_type = "EOF"
    /\ SourceTokens[Len(SourceTokens) - 1].token_type = "Semicolon"
    /\ result.pulled = Len(SourceTokens)
    /\ Pos(result.err) = Pos(SourceTokens[Len(SourceTokens)])

\* C24: add returns SymbolAlreadyExists exactly when the identifier is
\* declared in the symbols of the current scope itself, whatever the scopes
\* around it declare, and it then leaves the table, with its upper scopes,
\* as it was; otherwise it returns Ok and the symbol is declared in the
\* current scope, nothing else being changed.
C24_AddRefusesOwnScopeOnly ==
    (driver = "semantic" /\ reply.op = "add")
    => \A id \in {reply.arg.identifier} :
          /\ reply.ret = Err(SymbolAlreadyExists(id)) <=> id \in DOMAIN reply.before.symbols
          /\ reply.ret # Err(SymbolAlreadyExists(id)) => reply.ret = Ok(<<>>)
          /\ reply.ret = Err(SymbolAlreadyExists(id)) => table = reply.before
          /\ reply.ret = Ok(<<>>)
                => /\ table.upper_scope = reply.before.upper_scope
                   /\ DOMAIN table.symbols = DOMAIN reply.before.symbols \cup {id}
                   /\ table.symbols[id] = reply.arg
                   /\ \A n \in DOMAIN reply.before.symbols :
                          table.symbols[n] = reply.before.symbols[n]

\* `a`, declared in the scope around the current one and not in the current
\* one, was declared again in the current scope; or `a`, declared in the
\* current scope, was refused and the two scopes were left as they were
C24_Witness ==
    /\ driver = "semantic" /\ reply.op = "add"
    /\ reply.arg.identifier = "a"
    /\ reply.before.upper_scope # None
    /\ "a" \in DOMAIN reply.before.upper_scope.value.symbols
    /\ \/ /\ "a" \notin DOMAIN reply.before.symbols
          /\ reply.ret = Ok(<<>>)
          /\ table.symbols["a"] = reply.arg
          /\ table.upper_scope.value.symbols["a"] # reply.arg
       \/ /\ "a" \in DOMAIN reply.before.symbols
          /\ reply.before.symbols["a"] # reply.arg
          /\ reply.ret = Err(SymbolAlreadyExists("a"))
          /\ table = reply.before

\* the symbols of the scopes of a table, from the current scope outward
RECURSIVE ScopesOf(_)
ScopesOf(T) ==
    <<T.symbols>> \o (IF T.upper_scope = None THEN <<>> ELSE ScopesOf(T.upper_scope.value))

\* the scopes of the sequence that declare the identifier
Declaring(scopes, identifier) == {i \in DOMAIN scopes : identifier \in DOMAIN scopes[i]}

\* the symbol of the innermost scope that declares the identifier, or
\* SymbolNotFound when no scope declares it
Resolved(scopes, identifier) ==
    IF Declaring(scopes, identifier) = {} THEN Err(SymbolNotFound(identifier))
    ELSE Ok(scopes[Min(Declaring(scopes, identifier))][identifier])

\* C25: on every chain of scopes reached by add, get(name) is the symbol of
\* the innermost scope that declares name, and SymbolNotFound exactly when
\* no scope of the chain declares it, which is exactly when exists(name) is
\* false; the calls made returned these values.
C25_GetResolvesInnermost ==
    driver = "semantic"
    => \A scopes \in {ScopesOf(table)} :
          /\ \A n \in SymbolNames :
                /\ get(table, n) = Resolved(scopes, n)
                /\ get(table, n) = Err(SymbolNotFound(n)) <=> Declaring(scopes, n) = {}
                /\ get(table, n) = Err(SymbolNotFound(n)) <=> ~exists(table, n)
          /\ reply.op = "get" => reply.ret = Resolved(scopes, reply.arg)
          /\ reply.op = "exists" => reply.ret = (Declaring(scopes, reply.arg) # {})

\* `a` is declared in the current scope and, as another symbol, in the scope
\* around it, `b` in neither, and get returned the symbol of the current
\* scope for `a`
C25_Witness ==
    /\ driver = "semantic" /\ reply.op = "get" /\ reply.arg = "a"
    /\ table.upper_scope # None
    /\ "a" \in DOMAIN table.symbols
    /\ "a" \in DOMAIN table.upper_scope.value.symbols
    /\ table.symbols["a"] # table.upper_scope.value.symbols["a"]
    /\ reply.ret = Ok(table.symbols["a"])
    /\ ~exists(table, "b")
    /\ get(table, "b") = Err(SymbolNotFound("b"))

\* C22: two expressions, or two statements, that differ in something other
\* than their line and column fields never have the same text in the compact
\* mode.
C22_CompactIsLossless ==
    (driver = "display" /\ reply.op = "fmt" /\ ~reply.alternate)
    => (nodes[1] # nodes[2] => texts[1] # texts[2])

====
